---- MODULE Spec2Model ----
(***************************************************************************)
(* Verification model of the agile-metrics pipeline (metrics_analyzer).    *)
(*                                                                         *)
(* Text is modelled as sequences of one-character strings, dates as        *)
(* proleptic Gregorian ordinals (datetime.date.toordinal), date-times as   *)
(* records [ord, secs], missing values (None / NaN / NaT) as the empty     *)
(* tuple and ratios as exact fractions [n, d] in lowest terms.             *)
(***************************************************************************)
EXTENDS Integers, Sequences, FiniteSets, TLC

(***************************************************************************)
(* Text helpers (str methods and the regular expression of utils.py).      *)
(***************************************************************************)
Digits == <<"0", "1", "2", "3", "4", "5", "6", "7", "8", "9">>

IsDigit(c) == \E i \in 1..Len(Digits) : Digits[i] = c

DigitVal(c) == (CHOOSE i \in 1..Len(Digits) : Digits[i] = c) - 1

IsSpace(c) == c \in {" ", "\t", "\n"}

UpperLetters == <<"A", "B", "C", "D", "E", "F", "G", "H", "I", "J", "K", "L", "M",
                  "N", "O", "P", "Q", "R", "S", "T", "U", "V", "W", "X", "Y", "Z">>

LowerLetters == <<"a", "b", "c", "d", "e", "f", "g", "h", "i", "j", "k", "l", "m",
                  "n", "o", "p", "q", "r", "s", "t", "u", "v", "w", "x", "y", "z">>

\* str.lower() on one character.
LowerChar(c) ==
    IF \E i \in 1..Len(UpperLetters) : UpperLetters[i] = c
    THEN LowerLetters[CHOOSE i \in 1..Len(UpperLetters) : UpperLetters[i] = c]
    ELSE c

\* str.upper() on one character.
UpperChar(c) ==
    IF \E i \in 1..Len(LowerLetters) : LowerLetters[i] = c
    THEN UpperLetters[CHOOSE i \in 1..Len(LowerLetters) : LowerLetters[i] = c]
    ELSE c

Lower(s) == [i \in 1..Len(s) |-> LowerChar(s[i])]

Upper(s) == [i \in 1..Len(s) |-> UpperChar(s[i])]

\* s[i:j] with 1-based inclusive bounds; empty when j < i.
Slice(s, i, j) == IF j < i THEN <<>> ELSE SubSeq(s, i, j)

\* str.strip().
Strip(s) ==
    LET keep == {i \in 1..Len(s) : ~IsSpace(s[i])}
    IN  IF keep = {} THEN <<>>
        ELSE LET lo == CHOOSE i \in keep : \A j \in keep : i <= j
                 hi == CHOOSE i \in keep : \A j \in keep : j <= i
             IN  SubSeq(s, lo, hi)

\* key occurs in s starting at position i.
MatchAt(key, s, i) ==
    /\ i + Len(key) - 1 <= Len(s)
    /\ \A k \in 1..Len(key) : s[i + k - 1] = key[k]

\* Python's "key in s" on strings.
Contains(key, s) == \E i \in 1..(Len(s) + 1) : MatchAt(key, s, i)

\* Code points of the characters the model uses, in ASCII order.
Alphabet == <<"\t", "\n", " ", "'", "(", ")", ",", "-", ".", "/">> \o Digits \o <<":", "?">>
            \o UpperLetters \o <<"_">> \o LowerLetters

Code(c) == CHOOSE i \in 1..Len(Alphabet) : Alphabet[i] = c

\* Python's s < t on strings (lexicographic by code point).
StrLess(s, t) ==
    \E i \in 1..(Len(t)) :
        /\ \A k \in 1..(i - 1) : k <= Len(s) /\ s[k] = t[k]
        /\ \/ i = Len(s) + 1
           \/ i <= Len(s) /\ Code(s[i]) < Code(t[i])

\* int(digits).
RECURSIVE StrToInt(_)
StrToInt(s) ==
    IF s = <<>> THEN 0
    ELSE 10 * StrToInt(SubSeq(s, 1, Len(s) - 1)) + DigitVal(s[Len(s)])

\* str(n) for a natural number.
RECURSIVE IntToStr(_)
IntToStr(n) ==
    IF n < 10 THEN <<Digits[n + 1]>>
    ELSE IntToStr(n \div 10) \o <<Digits[(n % 10) + 1]>>

(***************************************************************************)
(* Exact fractions, for the float ratios and means of the metrics.         *)
(***************************************************************************)
RECURSIVE GCD(_, _)
GCD(a, b) == IF b = 0 THEN a ELSE GCD(b, a % b)

Frac(n, d) == LET g == GCD(n, d) IN [n |-> n \div g, d |-> d \div g]

FracAdd(x, y) == Frac(x.n * y.d + y.n * x.d, x.d * y.d)

FracMul(x, k) == Frac(x.n * k, x.d)

FracDiv(x, k) == Frac(x.n, x.d * k)

FracOfInt(k) == [n |-> k, d |-> 1]

RECURSIVE FracSum(_)
FracSum(xs) == IF xs = <<>> THEN FracOfInt(0) ELSE FracAdd(xs[1], FracSum(Tail(xs)))

\* Series.mean() / np.mean over a list of fractions already free of NaN.
FracMean(xs) == FracDiv(FracSum(xs), Len(xs))

(***************************************************************************)
(* Optional values: None / NaN / NaT is the empty tuple, a present value v *)
(* is the one-element tuple <<v>>.                                         *)
(***************************************************************************)
None == <<>>

Some(v) == <<v>>

\* pd.isna(x) / x is None.
IsNa(x) == x = None

NotNa(x) == x # None

Val(x) == x[1]

(***************************************************************************)
(* Calendar dates as Python's proleptic Gregorian ordinals.                *)
(***************************************************************************)
IsLeap(y) == y % 4 = 0 /\ (y % 100 # 0 \/ y % 400 = 0)

DaysInMonth(y, m) ==
    IF m = 2 THEN (IF IsLeap(y) THEN 29 ELSE 28)
    ELSE IF m \in {4, 6, 9, 11} THEN 30 ELSE 31

RECURSIVE DaysBeforeMonth(_, _)
DaysBeforeMonth(y, m) ==
    IF m = 1 THEN 0 ELSE DaysBeforeMonth(y, m - 1) + DaysInMonth(y, m - 1)

DaysBeforeYear(y) ==
    (y - 1) * 365 + ((y - 1) \div 4) - ((y - 1) \div 100) + ((y - 1) \div 400)

\* date(y, m, d).toordinal()
Ymd2Ord(y, m, d) == DaysBeforeYear(y) + DaysBeforeMonth(y, m) + d

ValidYmd(y, m, d) == y >= 1 /\ m \in 1..12 /\ d >= 1 /\ d <= DaysInMonth(y, m)

\* date.weekday(): Monday = 0 ... Sunday = 6.
Weekday(ord) == (ord + 6) % 7

\* A datetime value: calendar date (ordinal) and seconds since midnight.
DateTime(ord, secs) == [kind |-> "datetime", ord |-> ord, secs |-> secs, text |-> <<>>]

\* A string cell holding a date in some textual form.
DateText(t) == [kind |-> "str", ord |-> 0, secs |-> 0, text |-> t]

\* Python's a < b on datetimes.
DtLess(a, b) == a.ord < b.ord \/ (a.ord = b.ord /\ a.secs < b.secs)

(***************************************************************************)
(* datetime.strptime for the formats safe_date_conversion tries.           *)
(***************************************************************************)
AllDigits(s) == s # <<>> /\ \A i \in 1..Len(s) : IsDigit(s[i])

\* Fields of s separated by the character sep.
RECURSIVE SplitOn(_, _)
SplitOn(s, sep) ==
    IF \A i \in 1..Len(s) : s[i] # sep THEN <<s>>
    ELSE LET p == CHOOSE i \in 1..Len(s) : s[i] = sep /\ \A j \in 1..(i - 1) : s[j] # sep
         IN  <<Slice(s, 1, p - 1)>> \o SplitOn(Slice(s, p + 1, Len(s)), sep)

\* A %d, %m, %H, %M or %S field: one or two digits.
IsNum2(f) == AllDigits(f) /\ Len(f) <= 2

\* A %Y field: four digits.
IsYear(f) == AllDigits(f) /\ Len(f) = 4

\* '%H:%M:%S' -> seconds since midnight, or None.
ParseTime(t) ==
    LET f == SplitOn(t, ":")
    IN  IF Len(f) = 3 /\ IsNum2(f[1]) /\ IsNum2(f[2]) /\ IsNum2(f[3])
           /\ StrToInt(f[1]) <= 23 /\ StrToInt(f[2]) <= 59 /\ StrToInt(f[3]) <= 61
        THEN Some(StrToInt(f[1]) * 3600 + StrToInt(f[2]) * 60 + StrToInt(f[3]))
        ELSE None

\* The date part under one of the three field orders: "ymd" with '-', "dmy" or "mdy" with '/'.
ParseDate(t, order) ==
    LET f == SplitOn(t, IF order = "ymd" THEN "-" ELSE "/")
        yf == IF Len(f) = 3 THEN (IF order = "ymd" THEN f[1] ELSE f[3]) ELSE <<>>
        mf == IF Len(f) = 3 THEN (IF order = "dmy" THEN f[2] ELSE IF order = "mdy" THEN f[1] ELSE f[2]) ELSE <<>>
        df == IF Len(f) = 3 THEN (IF order = "dmy" THEN f[1] ELSE IF order = "mdy" THEN f[2] ELSE f[3]) ELSE <<>>
    IN  IF Len(f) = 3 /\ IsYear(yf) /\ IsNum2(mf) /\ IsNum2(df)
           /\ ValidYmd(StrToInt(yf), StrToInt(mf), StrToInt(df))
        THEN Some(Ymd2Ord(StrToInt(yf), StrToInt(mf), StrToInt(df)))
        ELSE None

\* datetime.strptime(text, fmt) for fmt = <<order, withTime>>; None stands for ValueError.
Strptime(text, fmt) ==
    LET parts == SplitOn(text, " ")
    IN  IF ~fmt[2]
        THEN LET d == ParseDate(text, fmt[1])
             IN  IF NotNa(d) THEN Some(DateTime(Val(d), 0)) ELSE None
        ELSE IF Len(parts) # 2 THEN None
        ELSE LET d == ParseDate(parts[1], fmt[1])
                 t == ParseTime(parts[2])
             IN  IF NotNa(d) /\ NotNa(t) THEN Some(DateTime(Val(d), Val(t))) ELSE None

\* The formats list of safe_date_conversion, in order.
DateFormats == << <<"ymd", FALSE>>, <<"dmy", FALSE>>, <<"mdy", FALSE>>,
                  <<"ymd", TRUE>>, <<"dmy", TRUE>> >>

\* safe_date_conversion(value): value is None or Some(datetime) or Some(string cell).
safe_date_conversion(value) ==
    IF IsNa(value) THEN None
    ELSE IF Val(value).kind = "datetime" THEN value
    ELSE LET t  == Strip(Val(value).text)
             ok == {i \in 1..Len(DateFormats) : NotNa(Strptime(t, DateFormats[i]))}
         IN  IF ok = {} THEN None
             ELSE Strptime(t, DateFormats[CHOOSE i \in ok : \A j \in ok : i <= j])

(***************************************************************************)
(* Business-day calendar (utils.calculate_business_days).                  *)
(***************************************************************************)
\* config.HOLIDAYS, each 'YYYY-MM-DD' entry as <<year, month, day>>.
HOLIDAYS == <<
    <<2024, 1, 1>>, <<2024, 3, 29>>, <<2024, 3, 30>>, <<2024, 5, 1>>, <<2024, 5, 21>>,
    <<2024, 6, 20>>, <<2024, 6, 29>>, <<2024, 7, 16>>, <<2024, 8, 15>>, <<2024, 9, 18>>,
    <<2024, 9, 19>>, <<2024, 9, 20>>, <<2024, 10, 12>>, <<2024, 10, 31>>, <<2024, 11, 1>>,
    <<2024, 12, 8>>, <<2024, 12, 25>>,
    <<2025, 1, 1>>, <<2025, 4, 18>>, <<2025, 4, 19>>, <<2025, 5, 1>>, <<2025, 5, 21>>,
    <<2025, 6, 20>>, <<2025, 6, 29>>, <<2025, 7, 16>>, <<2025, 8, 15>>, <<2025, 9, 18>>,
    <<2025, 9, 19>>, <<2025, 10, 12>>, <<2025, 10, 31>>, <<2025, 11, 1>>, <<2025, 12, 8>>,
    <<2025, 12, 25>> >>

\* holiday_dates: the set of dates parsed from the holiday list.
HolidayDates(holidays) ==
    {Ymd2Ord(holidays[i][1], holidays[i][2], holidays[i][3]) : i \in 1..Len(holidays)}

\* Mutant: the holiday test is dropped.
IsBusinessDay_NoHolidays(d, holiday_dates) == Weekday(d) < 5

\* Mutant: Saturday counted as a working day.
IsBusinessDay_Saturday(d, holiday_dates) == Weekday(d) < 6 /\ d \notin holiday_dates

\* The test applied to current_date inside the counting loop.
IsBusinessDay(d, holiday_dates) == Weekday(d) < 5 /\ d \notin holiday_dates

\* while current_date <= end_date_obj: ... current_date += timedelta(days=1)
RECURSIVE CountLoop(_, _, _)
CountLoop(current_date, end_date_obj, holiday_dates) ==
    IF current_date <= end_date_obj
    THEN (IF IsBusinessDay(current_date, holiday_dates) THEN 1 ELSE 0)
         + CountLoop(current_date + 1, end_date_obj, holiday_dates)
    ELSE 0

\* Mutant: a reversed range is counted as its mirror image.
calculate_business_days_Abs(start_date, end_date) ==
    LET start == safe_date_conversion(start_date)
        end   == safe_date_conversion(end_date)
    IN  IF IsNa(start) \/ IsNa(end) THEN None
        ELSE IF Val(end).ord < Val(start).ord
        THEN Some(CountLoop(Val(end).ord, Val(start).ord, HolidayDates(HOLIDAYS)))
        ELSE Some(CountLoop(Val(start).ord, Val(end).ord, HolidayDates(HOLIDAYS)))

\* calculate_business_days(start_date, end_date) with the default holiday list.
calculate_business_days(start_date, end_date) ==
    LET start == safe_date_conversion(start_date)
        end   == safe_date_conversion(end_date)
    IN  IF IsNa(start) \/ IsNa(end) THEN None
        ELSE Some(CountLoop(Val(start).ord, Val(end).ord, HolidayDates(HOLIDAYS)))


(***************************************************************************)
(* String literals of the program, written out as character sequences.    *)
(***************************************************************************)
T_HDU == <<"H", "D", "U">>

T_Bug == <<"B", "u", "g">>

T_Solicitud == <<"S", "o", "l", "i", "c", "i", "t", "u", "d">>

T_nan == <<"n", "a", "n">>

T_v == <<"v">>

T_bug == <<"b", "u", "g">>

T_Sprint == <<"S", "p", "r", "i", "n", "t">>

T_SprintSp == <<"S", "p", "r", "i", "n", "t", " ">>

T_CommaSp == <<",", " ">>

E_CertificadoQA == <<"9", ".", " ", "C", "e", "r", "t", "i", "f", "i", "c", "a", "d", "o", " ", "Q", "A">>

E_UAT == <<"1", "0", ".", " ", "U", "A", "T">>

E_ReadyRelease == <<"1", "1", ".", " ", "R", "e", "a", "d", "y", " ", "f", "o", "r", " ", "P", "r", "o", "d", "u", "c", "t", " ", "R", "e", "l", "e", "a", "s", "e">>

E_Validacion == <<"1", "2", ".", " ", "V", "a", "l", "i", "d", "a", "c", "i", "ó", "n", " ", "a", " ", "P", "r", "o", "d", "u", "c", "c", "i", "ó", "n">>

E_Produccion == <<"1", "3", ".", " ", "P", "r", "o", "d", "u", "c", "c", "i", "ó", "n">>

E_InDevelopment == <<"3", ".", " ", "I", "n", " ", "D", "e", "v", "e", "l", "o", "p", "m", "e", "n", "t">>

M_Julio == <<"J", "u", "l", "i", "o">>

M_Agosto == <<"A", "g", "o", "s", "t", "o">>

M_Septiembre == <<"S", "e", "p", "t", "i", "e", "m", "b", "r", "e">>

M_Octubre == <<"O", "c", "t", "u", "b", "r", "e">>

M_Noviembre == <<"N", "o", "v", "i", "e", "m", "b", "r", "e">>

M_Diciembre == <<"D", "i", "c", "i", "e", "m", "b", "r", "e">>

K_Sprint2 == <<"S", "p", "r", "i", "n", "t", " ", "2">>

K_Sprint3 == <<"S", "p", "r", "i", "n", "t", " ", "3">>

K_Sprint4 == <<"S", "p", "r", "i", "n", "t", " ", "4">>

K_Sprint5 == <<"S", "p", "r", "i", "n", "t", " ", "5">>

K_Sprint6 == <<"S", "p", "r", "i", "n", "t", " ", "6">>

K_Sprint7 == <<"S", "p", "r", "i", "n", "t", " ", "7">>

K_Sprint8 == <<"S", "p", "r", "i", "n", "t", " ", "8">>

K_Sprint9 == <<"S", "p", "r", "i", "n", "t", " ", "9">>

K_Sprint10 == <<"S", "p", "r", "i", "n", "t", " ", "1", "0">>

K_Sprint11 == <<"S", "p", "r", "i", "n", "t", " ", "1", "1">>

K_Sprint12 == <<"S", "p", "r", "i", "n", "t", " ", "1", "2">>

(***************************************************************************)
(* Configuration (config.py).                                              *)
(***************************************************************************)
DEFAULT_SPRINT_MAPPING == <<
    <<K_Sprint2, M_Julio>>, <<K_Sprint3, M_Agosto>>, <<K_Sprint4, M_Agosto>>,
    <<K_Sprint5, M_Septiembre>>, <<K_Sprint6, M_Septiembre>>, <<K_Sprint7, M_Octubre>>,
    <<K_Sprint8, M_Octubre>>, <<K_Sprint9, M_Noviembre>>, <<K_Sprint10, M_Noviembre>>,
    <<K_Sprint11, M_Diciembre>>, <<K_Sprint12, M_Diciembre>> >>

DELIVERY_STATES_PRODUCTIVE == <<E_ReadyRelease, E_Validacion, E_Produccion>>

DELIVERY_STATES_DEVELOPMENT ==
    <<E_CertificadoQA, E_UAT, E_ReadyRelease, E_Validacion, E_Produccion>>

REQUIRED_COLUMNS ==
    <<"Name", "Estado", "Tipo Tarea", "Estimación Original", "Fecha Inicio", "Sprint">>

OPTIONAL_COLUMNS ==
    <<"Estado QA", "Estado UAT", "Puntos Logrados", "Fecha Término", "Fecha Certificado QA",
      "Fecha UAT", "Fecha Ready for Production", "Fecha paso a Producción", "Ciclos UAT",
      "Carry over">>

DELIVERY_DATE_COLUMNS_PRODUCTIVE ==
    <<"Fecha Término", "Fecha Ready for Production", "Fecha paso a Producción">>

DELIVERY_DATE_COLUMNS_DEVELOPMENT ==
    <<"Fecha Término", "Fecha Certificado QA", "Fecha UAT", "Fecha Ready for Production",
      "Fecha paso a Producción">>

DEFAULT_TEAM_SIZE == 5

(***************************************************************************)
(* Tables.  A table is [columns, rows]; a row is a function from column    *)
(* name to cell.  Text cells are None or Some(character sequence); number  *)
(* cells None or Some(Num(k)) / Some(Str(t)); date cells None or           *)
(* Some(DateTime(..)) / Some(DateText(t)).                                 *)
(***************************************************************************)
Num(k) == [kind |-> "num", num |-> k, text |-> <<>>]

Str(t) == [kind |-> "str", num |-> 0, text |-> t]

Bool(b) == [kind |-> "bool", num |-> IF b THEN 1 ELSE 0, text |-> <<>>]

SeqToSet(q) == {q[i] : i \in 1..Len(q)}

\* row.get(col): the cell, or None when the row has no such column.
Get(row, col) == IF col \in DOMAIN row THEN row[col] ELSE None

\* Series.sum(): NaN cells are skipped, an empty selection sums to 0.
RECURSIVE SumCol(_, _)
SumCol(rows, col) ==
    IF rows = <<>> THEN 0
    ELSE (IF NotNa(rows[1][col]) THEN Val(rows[1][col]) ELSE 0) + SumCol(Tail(rows), col)

\* Series.fillna(0).sum()
SumColFillna0(rows, col) == SumCol(rows, col)

\* Series.unique(): distinct values in order of first appearance.
RECURSIVE Unique(_)
Unique(vals) ==
    IF vals = <<>> THEN <<>>
    ELSE LET init == Unique(SubSeq(vals, 1, Len(vals) - 1))
             last == vals[Len(vals)]
         IN  IF \E i \in 1..Len(init) : init[i] = last THEN init ELSE Append(init, last)

Column(rows, col) == [i \in 1..Len(rows) |-> rows[i][col]]

\* sorted(list of strings)
RECURSIVE SortedStrs(_)
SortedStrs(vals) ==
    IF vals = <<>> THEN <<>>
    ELSE LET m == CHOOSE i \in 1..Len(vals) :
                     \A j \in 1..Len(vals) : ~StrLess(vals[j], vals[i])
             rest == [k \in 1..(Len(vals) - 1) |-> IF k < m THEN vals[k] ELSE vals[k + 1]]
         IN  <<vals[m]>> \o SortedStrs(rest)

\* sep.join(list of strings)
RECURSIVE Join(_, _)
Join(sep, vals) ==
    IF vals = <<>> THEN <<>>
    ELSE IF Len(vals) = 1 THEN vals[1]
    ELSE vals[1] \o sep \o Join(sep, Tail(vals))

(***************************************************************************)
(* data_loader.py                                                          *)
(***************************************************************************)
\* Default cell of an optional column the file does not have.
OptionalDefault(col) ==
    IF col \in {"Fecha Término", "Fecha Certificado QA", "Fecha UAT",
                "Fecha Ready for Production", "Fecha paso a Producción"}
    THEN None
    ELSE IF col = "Carry over" THEN Some(Str(<<>>))
    ELSE None

\* DataLoader._add_missing_optional_columns
AddMissingOptionalColumns(df) ==
    LET missing == SeqToSet(OPTIONAL_COLUMNS) \ df.columns
    IN  [columns |-> df.columns \cup missing,
         rows |-> [i \in 1..Len(df.rows) |->
                      [c \in df.columns \cup missing |->
                          IF c \in df.columns THEN df.rows[i][c] ELSE OptionalDefault(c)]]]

\* DataLoader._normalize_column_names: the rename table of misspelled headers.
NormalizeColumnName(c) == IF c = "Asigando" THEN "Asignado" ELSE c

NormalizeColumnNames(df) ==
    LET back(c) == IF c = "Asignado" /\ "Asigando" \in df.columns THEN "Asigando" ELSE c
        cols == {NormalizeColumnName(c) : c \in df.columns}
    IN  [columns |-> cols,
         rows |-> [i \in 1..Len(df.rows) |-> [c \in cols |-> df.rows[i][back(c)]]]]

\* DataLoader._validate_columns: the required columns the table lacks (a set in the
\* code; listed here in the order of REQUIRED_COLUMNS).
MissingRequired(df) ==
    LET keep == {i \in 1..Len(REQUIRED_COLUMNS) : REQUIRED_COLUMNS[i] \notin df.columns}
        F[i \in 0..Len(REQUIRED_COLUMNS)] ==
            IF i = 0 THEN <<>>
            ELSE IF i \in keep THEN Append(F[i - 1], REQUIRED_COLUMNS[i]) ELSE F[i - 1]
    IN  F[Len(REQUIRED_COLUMNS)]

\* DataLoader._validate_data_types
ValidateDataTypes(df) ==
    IF "Sprint" \in df.columns
    THEN (IF \A i \in 1..Len(df.rows) : IsNa(df.rows[i]["Sprint"])
          THEN << <<"No hay sprints válidos en los datos">> >> ELSE <<>>)
    ELSE << <<"Columna 'Sprint' no encontrada">> >>

\* DataLoader.validate: the list of errors, each a sequence of message parts.
Validate(df) ==
    (IF MissingRequired(df) # <<>>
     THEN << <<"Columnas faltantes: ">> \o MissingRequired(df) >> ELSE <<>>)
    \o (IF Len(df.rows) = 0 THEN << <<"No hay filas de datos en el archivo">> >> ELSE <<>>)
    \o ValidateDataTypes(df)

\* DataLoader.__init__ and DataLoader.load on a file [name, exists, readable, columns, rows]:
\* [ok, df] or [ok = FALSE, error].
Load(file) ==
    IF ~file.exists
    THEN [ok |-> FALSE, error |-> <<"Archivo no encontrado: ">> \o file.name, df |-> None]
    ELSE IF ~file.readable
    THEN [ok |-> FALSE, error |-> <<"Error al cargar el archivo: ", "read_excel">>, df |-> None]
    ELSE IF Len(file.rows) = 0
    THEN [ok |-> FALSE,
          error |-> <<"Error al cargar el archivo: ", "El archivo está vacío (no tiene datos después de los headers)">>,
          df |-> None]
    ELSE [ok |-> TRUE, error |-> <<>>,
          df |-> Some(AddMissingOptionalColumns(NormalizeColumnNames(
                        [columns |-> file.columns, rows |-> file.rows])))]

\* load_and_validate_data(file_path): the validated table, or the ValueError raised.
load_and_validate_data(file) ==
    LET l == Load(file)
    IN  IF ~l.ok THEN l
        ELSE LET errors == Validate(Val(l.df))
             IN  IF errors # <<>>
                 THEN [ok |-> FALSE,
                       error |-> <<"Validación fallida:">> \o Join(<<>>, errors),
                       df |-> None]
                 ELSE l


(***************************************************************************)
(* utils.py: cell conversions and classification helpers.                  *)
(***************************************************************************)
COPY_SUFFIXES == <<<<"(", "c", "o", "p", "y", ")">>, <<"(", "c", "o", "p", "i", "a", ")">>, <<"(", "C", "o", "p", "y", ")">>, <<"(", "C", "o", "p", "i", "a", ")">>>>

\* is_copied_task(task_name)
is_copied_task(task_name) ==
    \E i \in 1..Len(COPY_SUFFIXES) : Contains(COPY_SUFFIXES[i], task_name)

\* float(cleaned) for the numerals the model feeds it: digits, optionally followed
\* by a decimal point and zeros; anything else raises ValueError (None).
ParseFloat(cleaned) ==
    LET f == SplitOn(cleaned, ".")
    IN  IF Len(f) = 1 /\ AllDigits(f[1]) THEN Some(StrToInt(f[1]))
        ELSE IF Len(f) = 2 /\ AllDigits(f[1]) /\ \A i \in 1..Len(f[2]) : f[2][i] = "0"
        THEN Some(StrToInt(f[1]))
        ELSE None

\* safe_float_conversion(value)
safe_float_conversion(value) ==
    IF IsNa(value) THEN None
    ELSE IF Val(value).kind = "num" THEN Some(Val(value).num)
    ELSE IF Val(value).kind = "bool" THEN Some(Val(value).num)
    ELSE LET stripped == Strip(Val(value).text)
             cleaned  == [i \in 1..Len(stripped) |->
                             IF stripped[i] = "," THEN "." ELSE stripped[i]]
         IN  ParseFloat(cleaned)

\* is_sprint_completed(sprint_completed_value)
is_sprint_completed(value) ==
    IF IsNa(value) THEN FALSE
    ELSE IF Val(value).kind = "str" THEN Lower(Strip(Val(value).text)) = T_v
    ELSE Val(value).num # 0

\* The leftmost match of r'Sprint\s*(\d+)' (IGNORECASE) in s: the digits matched, or None.
SprintRegexSearch(s) ==
    LET DigitsFrom(p) ==
            LET stop == {q \in p..(Len(s) + 1) : q = Len(s) + 1 \/ ~IsDigit(s[q])}
                e == CHOOSE q \in stop : \A r \in stop : q <= r
            IN  Slice(s, p, e - 1)
        AfterSpaces(p) ==
            LET stop == {q \in p..(Len(s) + 1) : q = Len(s) + 1 \/ ~IsSpace(s[q])}
            IN  CHOOSE q \in stop : \A r \in stop : q <= r
        Matches(i) ==
            /\ i + Len(T_Sprint) - 1 <= Len(s)
            /\ Lower(SubSeq(s, i, i + Len(T_Sprint) - 1)) = Lower(T_Sprint)
            /\ DigitsFrom(AfterSpaces(i + Len(T_Sprint))) # <<>>
        hits == {i \in 1..Len(s) : Matches(i)}
    IN  IF hits = {} THEN None
        ELSE LET i == CHOOSE h \in hits : \A k \in hits : h <= k
             IN  Some(DigitsFrom(AfterSpaces(i + Len(T_Sprint))))

\* Mutant: the number is kept as written (leading zeros included).
extract_sprint_number_KeepZeros(sprint_name) ==
    LET sprint_str == Strip(sprint_name)
        m == SprintRegexSearch(sprint_str)
    IN  IF NotNa(m) THEN T_SprintSp \o Val(m) ELSE sprint_str

\* extract_sprint_number(sprint_name) for a string argument.
extract_sprint_number(sprint_name) ==
    LET sprint_str == Strip(sprint_name)
        m == SprintRegexSearch(sprint_str)
    IN  IF NotNa(m) THEN T_SprintSp \o IntToStr(StrToInt(Val(m))) ELSE sprint_str


(***************************************************************************)
(* data_processor.py: DataProcessor.                                       *)
(***************************************************************************)
TEXT_COLUMNS == <<"Name", "Estado", "Sprint", "Tipo Tarea">>

NUMERIC_COLUMNS == <<"Estimación Original", "Puntos Logrados", "Ciclos UAT">>

DATE_COLUMNS ==
    <<"Fecha Inicio", "Fecha Término", "Fecha Ready for Production", "Fecha paso a Producción">>

\* DataProcessor.__init__: the delivery states of the team type.
DeliveryStates(team_type) ==
    IF team_type = "Productivo" THEN DELIVERY_STATES_PRODUCTIVE
    ELSE DELIVERY_STATES_DEVELOPMENT

\* Series.astype(str).str.strip() on one text cell: NaN becomes the string 'nan'.
AsStrStrip(cell) == IF IsNa(cell) THEN T_nan ELSE Strip(Val(cell))

\* DataProcessor._clean_basic_data
CleanBasicData(df) ==
    LET kept == SelectSeq(df.rows, LAMBDA r : ~(\A c \in DOMAIN r : IsNa(r[c])))
    IN  [columns |-> df.columns,
         rows |-> [i \in 1..Len(kept) |->
                     [c \in DOMAIN kept[i] |->
                         IF c \in SeqToSet(TEXT_COLUMNS) THEN AsStrStrip(kept[i][c])
                         ELSE kept[i][c]]]]

\* DataProcessor._convert_data_types
ConvertDataTypes(df) ==
    [columns |-> df.columns,
     rows |-> [i \in 1..Len(df.rows) |->
                 [c \in DOMAIN df.rows[i] |->
                     IF c \in SeqToSet(NUMERIC_COLUMNS) THEN safe_float_conversion(df.rows[i][c])
                     ELSE IF c \in SeqToSet(DATE_COLUMNS) THEN safe_date_conversion(df.rows[i][c])
                     ELSE df.rows[i][c]]]]

\* Mutant: the run-wide delivery-date column is the only end date considered.
CalculateCycleTime_Column(row, delivery_date_column) ==
    IF ~row["Is_Delivered"] THEN None
    ELSE LET start == Get(row, "Fecha Inicio")
             end   == Get(row, delivery_date_column)
         IN  IF IsNa(start) \/ IsNa(end) THEN None
             ELSE calculate_business_days(start, end)

\* Mutant: cycle time is computed for every task, delivered or not.
CalculateCycleTime_All(row, delivery_date_column) ==
    LET start == Get(row, "Fecha Inicio")
        rfp   == Get(row, "Fecha Ready for Production")
        end   == IF IsNa(rfp) THEN Get(row, "Fecha Término") ELSE rfp
    IN  IF IsNa(start) \/ IsNa(end) THEN None
        ELSE calculate_business_days(start, end)

\* DataProcessor._calculate_cycle_time(row); delivery_date_column is the processor's
\* attribute of that name, which the method never reads.
CalculateCycleTime(row, delivery_date_column) ==
    IF ~row["Is_Delivered"] THEN None
    ELSE LET start == Get(row, "Fecha Inicio")
             rfp   == Get(row, "Fecha Ready for Production")
             end   == IF IsNa(rfp) THEN Get(row, "Fecha Término") ELSE rfp
         IN  IF IsNa(start) \/ IsNa(end) THEN None
             ELSE calculate_business_days(start, end)

\* Mutant: the estimate is preferred over the achieved points.
GetEffectivePoints_EstimateFirst(row) ==
    LET puntos_logrados     == Get(row, "Puntos Logrados")
        estimacion_original == Get(row, "Estimación Original")
    IN  IF NotNa(estimacion_original) THEN Val(estimacion_original)
        ELSE IF NotNa(puntos_logrados) /\ Val(puntos_logrados) > 0 THEN Val(puntos_logrados)
        ELSE 0

\* DataProcessor._get_effective_points(row)
GetEffectivePoints(row) ==
    LET puntos_logrados     == Get(row, "Puntos Logrados")
        estimacion_original == Get(row, "Estimación Original")
    IN  IF NotNa(puntos_logrados) /\ Val(puntos_logrados) > 0 THEN Val(puntos_logrados)
        ELSE IF NotNa(estimacion_original) THEN Val(estimacion_original)
        ELSE 0

\* The 'Carry over' lambda of _add_calculated_columns.
HasCarryOver(cell) ==
    IF NotNa(cell)
    THEN Val(cell).kind = "str" /\ Lower(Strip(Val(cell).text)) = T_v
    ELSE FALSE

\* DataProcessor._add_calculated_columns
AddCalculatedColumns(df, team_type, delivery_date_column) ==
    LET step1(r) ==
            ("Is_Copy" :> is_copied_task(r["Name"]))
            @@ ("Sprint_Completed" :>
                  IF "Sprint Completed?" \in df.columns
                  THEN is_sprint_completed(r["Sprint Completed?"]) ELSE FALSE)
            @@ ("Sprint_Unified" :> extract_sprint_number(r["Sprint"]))
            @@ ("Is_Delivered" :>
                  \E k \in 1..Len(DeliveryStates(team_type)) :
                      DeliveryStates(team_type)[k] = r["Estado"])
            @@ ("Has_Carry_Over" :>
                  IF "Carry over" \in df.columns THEN HasCarryOver(r["Carry over"]) ELSE FALSE)
            @@ r
        step2(r) ==
            ("Cycle_Time_Days" :> CalculateCycleTime(r, delivery_date_column))
            @@ ("Effective_Points" :> GetEffectivePoints(r))
            @@ ("Is_Bug" :>
                  IF "Tipo Tarea" \in df.columns
                  THEN Contains(T_bug, Lower(r["Tipo Tarea"])) ELSE FALSE)
            @@ r
    IN  [columns |-> df.columns \cup
                        {"Is_Copy", "Sprint_Completed", "Sprint_Unified", "Is_Delivered",
                         "Has_Carry_Over", "Cycle_Time_Days", "Effective_Points", "Is_Bug"},
         rows |-> [i \in 1..Len(df.rows) |-> step2(step1(df.rows[i]))]]

\* The mask of tasks dropped for 'En Desarrollo' teams.
Estado9ZeroPoints(r) ==
    /\ r["Estado"] = E_CertificadoQA
    /\ NotNa(r["Estimación Original"])
    /\ Val(r["Estimación Original"]) = 0

\* Mutant: no team type has its zero-point QA-certified tasks dropped.
FilterInvalidData_KeepZeroPoints(df, team_type) ==
    LET completed == SelectSeq(df.rows, LAMBDA r : r["Sprint_Completed"])
        valid     == SelectSeq(completed, LAMBDA r : r["Sprint"] # T_nan)
    IN  [columns |-> df.columns, rows |-> valid]

\* Mutant: tasks of sprints not marked as completed are kept.
FilterInvalidData_AnySprint(df, team_type) ==
    LET valid == SelectSeq(df.rows, LAMBDA r : r["Sprint"] # T_nan)
        kept  == IF team_type = "En Desarrollo"
                 THEN SelectSeq(valid, LAMBDA r : ~Estado9ZeroPoints(r))
                 ELSE valid
    IN  [columns |-> df.columns, rows |-> kept]

\* DataProcessor._filter_invalid_data
FilterInvalidData(df, team_type) ==
    LET completed == SelectSeq(df.rows, LAMBDA r : r["Sprint_Completed"])
        valid     == SelectSeq(completed, LAMBDA r : r["Sprint"] # T_nan)
        kept      == IF team_type = "En Desarrollo"
                     THEN SelectSeq(valid, LAMBDA r : ~Estado9ZeroPoints(r))
                     ELSE valid
    IN  [columns |-> df.columns, rows |-> kept]

\* map_sprint_to_month(sprint_name): the month of the first mapping key contained in it.
\* Mutant of MapSprintToMonth: the last key of the table that occurs in the label wins.
MapSprintToMonth_LastKey(sprint_name, sprint_mapping) ==
    LET hits == {i \in 1..Len(sprint_mapping) : Contains(sprint_mapping[i][1], sprint_name)}
    IN  IF hits = {} THEN None
        ELSE Some(sprint_mapping[CHOOSE i \in hits : \A j \in hits : i >= j][2])

MapSprintToMonth(sprint_name, sprint_mapping) ==
    LET hits == {i \in 1..Len(sprint_mapping) : Contains(sprint_mapping[i][1], sprint_name)}
    IN  IF hits = {} THEN None
        ELSE Some(sprint_mapping[CHOOSE i \in hits : \A j \in hits : i <= j][2])

\* DataProcessor._add_month_mapping
AddMonthMapping(df, sprint_mapping) ==
    [columns |-> df.columns \cup {"Month"},
     rows |-> [i \in 1..Len(df.rows) |->
                 ("Month" :> MapSprintToMonth(df.rows[i]["Sprint"], sprint_mapping))
                 @@ df.rows[i]]]

\* DataProcessor.process / process_data(df, team_type, sprint_mapping, delivery_date_column)
process_data(df, team_type, sprint_mapping, delivery_date_column) ==
    AddMonthMapping(
        FilterInvalidData(
            AddCalculatedColumns(ConvertDataTypes(CleanBasicData(df)),
                                 team_type, delivery_date_column),
            team_type),
        sprint_mapping)


(***************************************************************************)
(* metrics_calculator.py: MetricsCalculator.                               *)
(***************************************************************************)
\* df[df[col] == value]
RowsWhere(rows, col, value) == SelectSeq(rows, LAMBDA r : r[col] = value)

\* df[df['Is_Delivered']]
Delivered(rows) == SelectSeq(rows, LAMBDA r : r["Is_Delivered"])

\* df[~df['Is_Delivered']]
NotDelivered(rows) == SelectSeq(rows, LAMBDA r : ~r["Is_Delivered"])

\* Series.dropna() on a column, as the list of its present values.
DropNa(rows, col) ==
    LET kept == SelectSeq(rows, LAMBDA r : NotNa(r[col]))
    IN  [i \in 1..Len(kept) |-> Val(kept[i][col])]

RECURSIVE SumInts(_)
SumInts(xs) == IF xs = <<>> THEN 0 ELSE xs[1] + SumInts(Tail(xs))

RECURSIVE SortedInts(_)
SortedInts(xs) ==
    IF xs = <<>> THEN <<>>
    ELSE LET m == CHOOSE i \in 1..Len(xs) : \A j \in 1..Len(xs) : xs[i] <= xs[j]
             rest == [k \in 1..(Len(xs) - 1) |-> IF k < m THEN xs[k] ELSE xs[k + 1]]
         IN  <<xs[m]>> \o SortedInts(rest)

\* Series.mean() of a non-empty list of integers.
MeanInts(xs) == Frac(SumInts(xs), Len(xs))

\* Series.median() of a non-empty list of integers.
MedianInts(xs) ==
    LET q == SortedInts(xs)
        n == Len(q)
    IN  IF n % 2 = 1 THEN FracOfInt(q[(n + 1) \div 2])
        ELSE Frac(q[n \div 2] + q[(n \div 2) + 1], 2)

\* x.mean() if len(x) > 0 else NaN
MeanOrNaN(xs) == IF Len(xs) > 0 THEN Some(MeanInts(xs)) ELSE None

\* x.median() if len(x) > 0 else NaN
MedianOrNaN(xs) == IF Len(xs) > 0 THEN Some(MedianInts(xs)) ELSE None

\* np.mean(list) if list else NaN, over a list of fractions.
FracMeanOrNaN(xs) == IF Len(xs) > 0 THEN Some(FracMean(xs)) ELSE None

\* (part / whole) * 100 if whole > 0 else NaN
PercentOrNaN(part, whole) == IF whole > 0 THEN Some(Frac(part * 100, whole)) ELSE None

\* The task types counted per sprint: every task type present in the data set.
get_task_types_to_track(df, col) == SortedStrs(Unique(Column(df.rows, col)))

\* The loop adding, for each delivered bug, Puntos Logrados when present, else the
\* estimate; a NaN estimate makes the total NaN (None).
RECURSIVE BugPointsEffective(_)
BugPointsEffective(bugs) ==
    IF bugs = <<>> THEN Some(0)
    ELSE LET rest == BugPointsEffective(Tail(bugs))
             this == IF NotNa(bugs[1]["Puntos Logrados"]) THEN bugs[1]["Puntos Logrados"]
                     ELSE bugs[1]["Estimación Original"]
         IN  IF IsNa(rest) \/ IsNa(this) THEN None ELSE Some(Val(this) + Val(rest))

\* (bug_points_effective / velocity) * 100 if velocity > 0 else NaN
ReworkVelocity(bug_points_effective, velocity) ==
    IF velocity > 0 /\ NotNa(bug_points_effective)
    THEN Some(Frac(Val(bug_points_effective) * 100, velocity)) ELSE None

\* Mutant: undelivered tasks contribute their estimate instead of their achieved points.
SprintVelocity_Estimates(sprint_data) == SumCol(sprint_data, "Estimación Original")

\* Mutant: delivered tasks contribute their achieved points instead of their estimate.
SprintVelocity_Achieved(sprint_data) == SumColFillna0(sprint_data, "Puntos Logrados")

\* velocity of _calculate_single_sprint_metrics (lines 104-111).
SprintVelocity(sprint_data) ==
    LET velocity_delivered     == SumCol(Delivered(sprint_data), "Estimación Original")
        velocity_not_delivered == SumColFillna0(NotDelivered(sprint_data), "Puntos Logrados")
    IN  velocity_delivered + velocity_not_delivered

\* Mutant: a sprint without commitment is reported as 0% instead of NaN.
SprintPredictability_Zero(committed_points, delivered_points) ==
    IF committed_points > 0 THEN Some(Frac(delivered_points * 100, committed_points))
    ELSE Some(FracOfInt(0))

\* Mutant: the ratio is reported as a fraction of one instead of a percentage.
SprintPredictability_Unscaled(committed_points, delivered_points) ==
    IF committed_points > 0 THEN Some(Frac(delivered_points, committed_points)) ELSE None

\* Mutant of SprintPredictability: commitment over delivery.
SprintPredictability_Inverted(committed_points, delivered_points) ==
    PercentOrNaN(committed_points, delivered_points)

\* predictability of _calculate_single_sprint_metrics (lines 130-133).
SprintPredictability(committed_points, delivered_points) ==
    PercentOrNaN(delivered_points, committed_points)

\* Mutant: rework measured against the whole commitment of the sprint.
SprintRework_Committed(sprint_data) ==
    PercentOrNaN(SumCol(SelectSeq(Delivered(sprint_data), LAMBDA r : r["Is_Bug"]),
                        "Estimación Original"),
                 SumCol(sprint_data, "Estimación Original"))

\* rework of _calculate_single_sprint_metrics (lines 152-160).
SprintRework(sprint_data) ==
    LET delivered              == Delivered(sprint_data)
        bugs_delivered         == SelectSeq(delivered, LAMBDA r : r["Is_Bug"])
        bug_points_estimated   == SumCol(bugs_delivered, "Estimación Original")
        total_points_estimated == SumCol(delivered, "Estimación Original")
    IN  PercentOrNaN(bug_points_estimated, total_points_estimated)

\* Mutant of SprintReworkAchieved: measured against the delivered points, as Rework is.
SprintReworkAchieved_DeliveredPoints(sprint_data) == SprintRework(sprint_data)

\* rework_achieved of _calculate_single_sprint_metrics (lines 162-168).
SprintReworkAchieved(sprint_data) ==
    PercentOrNaN(SumCol(SelectSeq(Delivered(sprint_data), LAMBDA r : r["Is_Bug"]),
                        "Estimación Original"),
                 SprintVelocity(sprint_data))

\* MetricsCalculator._calculate_single_sprint_metrics
CalculateSingleSprintMetrics(sprint, sprint_data, original_sprints, columns, team_size, task_types_to_track) ==
    LET delivered      == Delivered(sprint_data)
        throughput     == Len(delivered)
        velocity       == SprintVelocity(sprint_data)
        cycle_times    == DropNa(delivered, "Cycle_Time_Days")
        hdu_delivered  == RowsWhere(delivered, "Tipo Tarea", T_HDU)
        cycle_times_hdu == DropNa(hdu_delivered, "Cycle_Time_Days")
        committed_points == SumCol(sprint_data, "Estimación Original")
        delivered_points == SumCol(delivered, "Estimación Original")
        hdu_tasks      == RowsWhere(sprint_data, "Tipo Tarea", T_HDU)
        hdu_delivered2 == Delivered(hdu_tasks)
        committed_points_hdu == SumCol(hdu_tasks, "Estimación Original")
        delivered_points_hdu == SumCol(hdu_delivered2, "Estimación Original")
        bugs_delivered == SelectSeq(delivered, LAMBDA r : r["Is_Bug"])
        bug_points_estimated == SumCol(bugs_delivered, "Estimación Original")
        total_points_estimated == SumCol(delivered, "Estimación Original")
        bug_points_effective == BugPointsEffective(bugs_delivered)
    IN  [Sprint |-> sprint,
         Original_Sprints |->
             IF Len(original_sprints) > 1
             THEN Some(Join(T_CommaSp, SortedStrs(original_sprints))) ELSE None,
         Month |-> IF "Month" \in columns THEN sprint_data[1]["Month"] ELSE None,
         Throughput |-> throughput,
         Velocity |-> velocity,
         Total_Estimated |-> SumCol(sprint_data, "Estimación Original"),
         Cycle_Time_Avg |-> MeanOrNaN(cycle_times),
         Cycle_Time_Median |-> MedianOrNaN(cycle_times),
         Cycle_Time_HDU_Avg |-> MeanOrNaN(cycle_times_hdu),
         Cycle_Time_HDU_Median |-> MedianOrNaN(cycle_times_hdu),
         Predictability |-> SprintPredictability(committed_points, delivered_points),
         Predictability_HDU |-> PercentOrNaN(delivered_points_hdu, committed_points_hdu),
         Efficiency |-> IF team_size > 0 THEN Some(Frac(velocity, team_size)) ELSE None,
         Rework |-> SprintRework(sprint_data),
         Rework_Achieved |-> SprintReworkAchieved(sprint_data),
         Rework_Velocity |-> ReworkVelocity(bug_points_effective, velocity),
         Total_Tasks |-> Len(sprint_data),
         Delivered_Tasks |-> throughput,
         Type_Delivered |->
             [k \in 1..Len(task_types_to_track) |->
                 <<task_types_to_track[k],
                   Len(RowsWhere(delivered, "Tipo Tarea", task_types_to_track[k]))>>],
         Bug_Points_Estimated |-> bug_points_estimated,
         Total_Points_Estimated |-> total_points_estimated,
         Committed_Points |-> committed_points,
         Delivered_Points |-> delivered_points,
         Committed_Points_HDU |-> committed_points_hdu,
         Delivered_Points_HDU |-> delivered_points_hdu]

\* MetricsCalculator._calculate_sprint_metrics
\* Mutant of CalculateSprintMetrics: the rows without a month are set aside first.
CalculateSprintMetrics_MappedOnly(df, team_size, task_types_to_track) ==
    LET mapped == SelectSeq(df.rows, LAMBDA r : NotNa(r["Month"]))
        unified_sprints == SortedStrs(Unique(Column(mapped, "Sprint_Unified")))
    IN  [k \in 1..Len(unified_sprints) |->
            CalculateSingleSprintMetrics(unified_sprints[k],
                RowsWhere(mapped, "Sprint_Unified", unified_sprints[k]),
                Unique(Column(RowsWhere(mapped, "Sprint_Unified", unified_sprints[k]), "Sprint")),
                df.columns, team_size, task_types_to_track)]

CalculateSprintMetrics(df, team_size, task_types_to_track) ==
    LET unified_sprints == SortedStrs(Unique(Column(df.rows, "Sprint_Unified")))
    IN  [k \in 1..Len(unified_sprints) |->
            LET sprint_data == RowsWhere(df.rows, "Sprint_Unified", unified_sprints[k])
            IN  CalculateSingleSprintMetrics(unified_sprints[k], sprint_data,
                    Unique(Column(sprint_data, "Sprint")), df.columns, team_size,
                    task_types_to_track)]


\* Mutant: the month average divides the pooled velocity of the month's tasks by the
\* number of raw sprint labels instead of averaging the unified sprints.
MonthVelocityAvg_RawLabels(month_data, sprint_velocities) ==
    Some(Frac(SumInts(sprint_velocities), Len(Unique(Column(month_data, "Sprint")))))

\* velocity_avg of _calculate_single_month_metrics (line 292).
MonthVelocityAvg(month_data, sprint_velocities) ==
    IF Len(sprint_velocities) > 0
    THEN Some(MeanInts(sprint_velocities)) ELSE None

\* Mutant: the velocity of a sprint of the month is the plain sum of its estimates.
MonthSprintVelocity_Estimates(sprint_data) == SumCol(sprint_data, "Estimación Original")

\* The per-sprint velocity recomputed inside _calculate_single_month_metrics (lines 281-288).
MonthSprintVelocity(sprint_data) ==
    LET sprint_delivered     == Delivered(sprint_data)
        sprint_not_delivered == NotDelivered(sprint_data)
        velocity_delivered     == SumCol(sprint_delivered, "Estimación Original")
        velocity_not_delivered == SumColFillna0(sprint_not_delivered, "Puntos Logrados")
    IN  velocity_delivered + velocity_not_delivered

\* The rows of each unified sprint of the month, in order of first appearance.
MonthSprintRows(month_data) ==
    LET sprints == Unique(Column(month_data, "Sprint_Unified"))
    IN  [k \in 1..Len(sprints) |-> RowsWhere(month_data, "Sprint_Unified", sprints[k])]

\* Mutant of MonthCycleTimeAvg: one mean over the delivered tasks of the month.
MonthCycleTimeAvg_Pooled(month_data) ==
    MeanOrNaN(DropNa(Delivered(month_data), "Cycle_Time_Days"))

\* cycle_time_avg of _calculate_single_month_metrics (lines 295-306): only the sprints
\* that yield a value are appended to sprint_cycle_times.
MonthCycleTimeAvg(month_data) ==
    LET with_ct == SelectSeq([k \in 1..Len(MonthSprintRows(month_data)) |->
                                DropNa(Delivered(MonthSprintRows(month_data)[k]),
                                       "Cycle_Time_Days")],
                             LAMBDA c : Len(c) > 0)
    IN  FracMeanOrNaN([k \in 1..Len(with_ct) |-> MeanInts(with_ct[k])])

\* cycle_time_median of _calculate_single_month_metrics (lines 308-310).
MonthCycleTimeMedian(month_data) ==
    MedianOrNaN(DropNa(Delivered(month_data), "Cycle_Time_Days"))

\* Mutant of MonthPredictability: a sprint without commitment is averaged as 0.
MonthPredictability_ZeroCounted(month_data) ==
    FracMeanOrNaN([k \in 1..Len(MonthSprintRows(month_data)) |->
                     IF SumCol(MonthSprintRows(month_data)[k], "Estimación Original") > 0
                     THEN Frac(SumCol(Delivered(MonthSprintRows(month_data)[k]),
                                      "Estimación Original") * 100,
                               SumCol(MonthSprintRows(month_data)[k], "Estimación Original"))
                     ELSE FracOfInt(0)])

\* predictability of _calculate_single_month_metrics (lines 331-346): only the sprints
\* with committed > 0 are appended to sprint_predictabilities.
MonthPredictability(month_data) ==
    LET committed_k == SelectSeq([k \in 1..Len(MonthSprintRows(month_data)) |->
                                    <<SumCol(MonthSprintRows(month_data)[k],
                                             "Estimación Original"),
                                      SumCol(Delivered(MonthSprintRows(month_data)[k]),
                                             "Estimación Original")>>],
                                 LAMBDA c : c[1] > 0)
    IN  FracMeanOrNaN([k \in 1..Len(committed_k) |->
                         Frac(committed_k[k][2] * 100, committed_k[k][1])])

\* rework of _calculate_single_month_metrics (lines 379-387): one ratio over the
\* delivered tasks of the month.
MonthRework(month_data) ==
    PercentOrNaN(SumCol(SelectSeq(Delivered(month_data), LAMBDA r : r["Is_Bug"]),
                        "Estimación Original"),
                 SumCol(Delivered(month_data), "Estimación Original"))

\* throughput_total of _calculate_single_month_metrics: the delivered tasks of the month.
MonthThroughputTotal(month_data) == Len(Delivered(month_data))

\* MetricsCalculator._calculate_single_month_metrics
CalculateSingleMonthMetrics(month, month_data, team_size) ==
    LET unified_sprints_in_month == Unique(Column(month_data, "Sprint_Unified"))
        num_sprints == Len(unified_sprints_in_month)
        SprintData(k) == RowsWhere(month_data, "Sprint_Unified", unified_sprints_in_month[k])
        delivered == Delivered(month_data)
        throughput_total == MonthThroughputTotal(month_data)
        sprint_velocities == [k \in 1..num_sprints |-> MonthSprintVelocity(SprintData(k))]
        velocity_avg == MonthVelocityAvg(month_data, sprint_velocities)
        velocity_total == IF Len(sprint_velocities) > 0 THEN SumInts(sprint_velocities) ELSE 0
        with_ct_hdu == SelectSeq([k \in 1..num_sprints |->
                                    DropNa(RowsWhere(Delivered(SprintData(k)), "Tipo Tarea", T_HDU),
                                           "Cycle_Time_Days")],
                                 LAMBDA c : Len(c) > 0)
        sprint_cycle_times_hdu == [k \in 1..Len(with_ct_hdu) |-> MeanInts(with_ct_hdu[k])]
        all_cycle_times_hdu == DropNa(RowsWhere(delivered, "Tipo Tarea", T_HDU), "Cycle_Time_Days")
        committed_hdu_k ==
            SelectSeq([k \in 1..num_sprints |->
                         <<SumCol(RowsWhere(SprintData(k), "Tipo Tarea", T_HDU),
                                  "Estimación Original"),
                           SumCol(Delivered(RowsWhere(SprintData(k), "Tipo Tarea", T_HDU)),
                                  "Estimación Original")>>],
                      LAMBDA c : c[1] > 0)
        sprint_predictabilities_hdu == [k \in 1..Len(committed_hdu_k) |->
                                          Frac(committed_hdu_k[k][2] * 100, committed_hdu_k[k][1])]
        sprint_totals_estimated == [k \in 1..num_sprints |->
                                      SumCol(SprintData(k), "Estimación Original")]
        bugs_delivered == SelectSeq(delivered, LAMBDA r : r["Is_Bug"])
        bug_points_estimated == SumCol(bugs_delivered, "Estimación Original")
        bug_points_effective == BugPointsEffective(bugs_delivered)
    IN  [Month |-> month,
         Num_Sprints |-> num_sprints,
         Sprints |-> Join(T_CommaSp, SortedStrs(unified_sprints_in_month)),
         Throughput_Total |-> throughput_total,
         Throughput_Avg |-> IF num_sprints > 0 THEN Some(Frac(throughput_total, num_sprints))
                            ELSE None,
         Velocity_Total |-> velocity_total,
         Velocity_Avg |-> velocity_avg,
         Total_Estimated_Total |-> IF Len(sprint_totals_estimated) > 0
                                   THEN SumInts(sprint_totals_estimated) ELSE 0,
         Total_Estimated_Avg |-> MeanOrNaN(sprint_totals_estimated),
         Cycle_Time_Avg |-> MonthCycleTimeAvg(month_data),
         Cycle_Time_Median |-> MonthCycleTimeMedian(month_data),
         Cycle_Time_HDU_Avg |-> FracMeanOrNaN(sprint_cycle_times_hdu),
         Cycle_Time_HDU_Median |-> MedianOrNaN(all_cycle_times_hdu),
         Predictability |-> MonthPredictability(month_data),
         Predictability_HDU |-> FracMeanOrNaN(sprint_predictabilities_hdu),
         Efficiency |-> IF team_size > 0 /\ NotNa(velocity_avg)
                        THEN Some(FracDiv(Val(velocity_avg), team_size)) ELSE None,
         Rework |-> MonthRework(month_data),
         Rework_Achieved |-> PercentOrNaN(bug_points_estimated, velocity_total),
         Rework_Velocity |-> ReworkVelocity(bug_points_effective, velocity_total),
         Total_Tasks |-> Len(month_data),
         Delivered_Tasks |-> throughput_total]

\* MetricsCalculator._calculate_month_metrics: an empty list stands for the empty DataFrame.
CalculateMonthMetrics(df, team_size) ==
    IF "Month" \notin df.columns \/ \A i \in 1..Len(df.rows) : IsNa(df.rows[i]["Month"])
    THEN <<>>
    ELSE LET present == SelectSeq(df.rows, LAMBDA r : NotNa(r["Month"]))
             months  == SortedStrs(Unique([i \in 1..Len(present) |-> Val(present[i]["Month"])]))
         IN  [k \in 1..Len(months) |->
                 CalculateSingleMonthMetrics(months[k],
                     RowsWhere(df.rows, "Month", Some(months[k])), team_size)]

\* Series.mean() of a metrics column: NaN entries are skipped, NaN when none is left.
MeanSkipNa(vals) ==
    LET kept == SelectSeq(vals, LAMBDA v : NotNa(v))
    IN  IF Len(kept) = 0 THEN None ELSE Some(FracMean([i \in 1..Len(kept) |-> Val(kept[i])]))

\* Mutant: the last position holding the maximum.
IdxMax_Last(xs) ==
    CHOOSE i \in 1..Len(xs) :
        /\ \A j \in 1..Len(xs) : xs[j] <= xs[i]
        /\ \A j \in (i + 1)..Len(xs) : xs[j] < xs[i]

\* Series.idxmax(): the first position holding the maximum.
IdxMax(xs) ==
    CHOOSE i \in 1..Len(xs) :
        /\ \A j \in 1..Len(xs) : xs[j] <= xs[i]
        /\ \A j \in 1..(i - 1) : xs[j] < xs[i]

\* Series.idxmin(): the first position holding the minimum.
IdxMin(xs) ==
    CHOOSE i \in 1..Len(xs) :
        /\ \A j \in 1..Len(xs) : xs[i] <= xs[j]
        /\ \A j \in 1..(i - 1) : xs[i] < xs[j]

\* Mutant: the getters never raise.
NotCalculatedError_Never(metrics, message) == None

\* `if self.<metrics> is None: raise ValueError(message)` of the three getters: the
\* error raised, if any.
NotCalculatedError(metrics, message) == IF metrics = None THEN Some(message) ELSE None

\* MetricsCalculator.get_summary once the sprint metrics exist.
\* Mutant of SummaryTypeCounts: the tasks of a type are counted delivered or not.
SummaryTypeCounts_AllTasks(df, task_types_to_track) ==
    [k \in 1..Len(task_types_to_track) |->
        <<Lower(task_types_to_track[k]),
          Len(RowsWhere(df.rows, "Tipo Tarea", task_types_to_track[k]))>>]

\* task_type_summary of get_summary (lines 492-497): keys '<type.lower()>_delivered'.
SummaryTypeCounts(df, task_types_to_track) ==
    [k \in 1..Len(task_types_to_track) |->
        <<Lower(task_types_to_track[k]),
          Len(RowsWhere(Delivered(df.rows), "Tipo Tarea", task_types_to_track[k]))>>]

GetSummary(df, sprint_metrics, team_size, task_types_to_track) ==
    LET Col(f(_)) == [i \in 1..Len(sprint_metrics) |-> f(sprint_metrics[i])]
        throughputs == Col(LAMBDA m : m.Throughput)
        IntMean(xs) == IF Len(xs) = 0 THEN None ELSE Some(MeanInts(xs))
        best  == sprint_metrics[IdxMax(throughputs)]
        worst == sprint_metrics[IdxMin(throughputs)]
    IN  [total_sprints |-> Len(sprint_metrics),
         total_delivered |-> SumInts(throughputs),
         avg_throughput |-> IntMean(throughputs),
         avg_velocity |-> IntMean(Col(LAMBDA m : m.Velocity)),
         avg_cycle_time |-> MeanSkipNa(Col(LAMBDA m : m.Cycle_Time_Avg)),
         avg_predictability |-> MeanSkipNa(Col(LAMBDA m : m.Predictability)),
         avg_efficiency |-> MeanSkipNa(Col(LAMBDA m : m.Efficiency)),
         avg_rework |-> MeanSkipNa(Col(LAMBDA m : m.Rework)),
         avg_rework_achieved |-> MeanSkipNa(Col(LAMBDA m : m.Rework_Achieved)),
         avg_rework_velocity |-> MeanSkipNa(Col(LAMBDA m : m.Rework_Velocity)),
         best_sprint |-> [name |-> best.Sprint, throughput |-> best.Throughput],
         worst_sprint |-> [name |-> worst.Sprint, throughput |-> worst.Throughput],
         team_size |-> team_size,
         type_delivered |-> SummaryTypeCounts(df, task_types_to_track)]

(***************************************************************************)
(* batch_report_generator.py                                               *)
(***************************************************************************)
\* BatchReportGenerator._calculate_avg_predictability_hdu: a number in every case.
CalculateAvgPredictabilityHdu(sprint_metrics) ==
    IF Len(sprint_metrics) = 0 THEN Some(FracOfInt(0))
    ELSE LET valid_values == SelectSeq([i \in 1..Len(sprint_metrics) |->
                                           sprint_metrics[i].Predictability_HDU],
                                       LAMBDA v : NotNa(v))
         IN  IF Len(valid_values) = 0 THEN Some(FracOfInt(0))
             ELSE Some(FracMean([i \in 1..Len(valid_values) |-> Val(valid_values[i])]))

\* The cells that _create_summary_sheet writes for one team (columns 3 to 11): the
\* summary has every key, so summary.get(key, 0) is the value of the key.
SummarySheetRow(summary, sprint_metrics) ==
    [total_sprints |-> summary.total_sprints,
     avg_throughput |-> summary.avg_throughput,
     avg_velocity |-> summary.avg_velocity,
     avg_cycle_time |-> summary.avg_cycle_time,
     pred |-> summary.avg_predictability,
     pred_hdu |-> CalculateAvgPredictabilityHdu(sprint_metrics),
     avg_efficiency |-> summary.avg_efficiency,
     rework |-> summary.avg_rework,
     total_delivered |-> summary.total_delivered]


(***************************************************************************)
(* Input data: the cell texts, dates and rows the input tables are built   *)
(* from.                                                                  *)
(***************************************************************************)
L_Sprint7FIDSIN == <<"S", "p", "r", "i", "n", "t", " ", "7", " ", "F", "I", "D", "S", "I", "N">>

L_Sprint7Auto3P == <<"S", "p", "r", "i", "n", "t", " ", "7", " ", "A", "u", "t", "o", "3", "P">>

L_Sprint8 == <<"S", "p", "r", "i", "n", "t", " ", "8">>

L_Sprint7 == <<"S", "p", "r", "i", "n", "t", " ", "7">>

L_Sprint08X == <<"S", "p", "r", "i", "n", "t", " ", "0", "8", " ", "X">>

L_sprint9 == <<"s", "p", "r", "i", "n", "t", " ", "9">>

L_Sprint9 == <<"S", "p", "r", "i", "n", "t", " ", "9">>

L_ReleaseCandidate == <<"R", "e", "l", "e", "a", "s", "e", " ", "C", "a", "n", "d", "i", "d", "a", "t", "e">>

L_Sprint07FIDSIN == <<"S", "p", "r", "i", "n", "t", " ", "0", "7", " ", "F", "I", "D", "S", "I", "N">>

N_Task == <<"T", "a", "r", "e", "a">>

N_TaskCopy == <<"T", "a", "r", "e", "a", " ", "(", "c", "o", "p", "y", ")">>

TEAM_Auto3P == <<"A", "u", "t", "o", "3", "P">>

TEAM_FIDREN == <<"F", "I", "D", "R", "E", "N">>

TEAM_P2W == <<"P", "2", "W">>

TEAM_FIDSIN == <<"F", "I", "D", "S", "I", "N">>

TEAM_FIDSIN_2_0 == <<"F", "I", "D", "S", "I", "N", "_", "2", "_", "0">>

TEAM_Beta == <<"B", "e", "t", "a">>

TEAM_Gamma == <<"G", "a", "m", "m", "a">>

DEV_FIDREN == <<"F", "I", "D", "R", "E", "N">>

DEV_FIDSIN_2_0 == <<"F", "I", "D", "S", "I", "N", "_", "2", "_", "0">>

DEV_P2W == <<"P", "2", "W">>

X_2c0 == <<"2", ",", "0">>

X_V_sp == <<"V", " ">>

X_x == <<"x">>

X_d_07_10_2024 == <<"0", "7", "/", "1", "0", "/", "2", "0", "2", "4">>

X_dt_2024_10_11_18 == <<"2", "0", "2", "4", "-", "1", "0", "-", "1", "1", " ", "1", "8", ":", "0", "0", ":", "0", "0">>

X_garbage == <<"p", "e", "n", "d", "i", "e", "n", "t", "e">>

DEVELOPMENT_TEAMS == <<DEV_FIDREN, DEV_FIDSIN_2_0, DEV_P2W>>

\* Some(datetime(y, m, d, hour))
At(y, m, d, hour) == Some(DateTime(Ymd2Ord(y, m, d), hour * 3600))

\* The columns of the input files of the scenarios.
FileColumns ==
    SeqToSet(REQUIRED_COLUMNS) \cup
    {"Puntos Logrados", "Fecha Término", "Fecha Ready for Production",
     "Fecha Certificado QA", "Sprint Completed?"}

\* One row of an exported file.
MkRow(estado, tipo, est, ach, sprint, inicio, termino, rfp, certqa, completed) ==
    [c \in FileColumns |->
        CASE c = "Name" -> Some(N_Task)
          [] c = "Estado" -> Some(estado)
          [] c = "Tipo Tarea" -> Some(tipo)
          [] c = "Estimación Original" -> est
          [] c = "Puntos Logrados" -> ach
          [] c = "Sprint" -> sprint
          [] c = "Fecha Inicio" -> inicio
          [] c = "Fecha Término" -> termino
          [] c = "Fecha Ready for Production" -> rfp
          [] c = "Fecha Certificado QA" -> certqa
          [] c = "Sprint Completed?" -> completed]

Pts(k) == Some(Num(k))

Done_v == Some(Str(T_v))

\* Scenario "points": two parallel teams in Sprint 7 and a bug plus a feature in Sprint 8.
PointsRows == {
    MkRow(E_ReadyRelease, T_HDU, Pts(5), None, Some(L_Sprint7FIDSIN),
          At(2024, 10, 7, 0), At(2024, 10, 11, 0), None, None, Done_v),
    MkRow(E_ReadyRelease, T_Solicitud, Pts(3), Pts(1), Some(L_Sprint7Auto3P),
          At(2024, 10, 7, 0), At(2024, 10, 14, 0), None, None, Done_v),
    MkRow(E_InDevelopment, T_HDU, Pts(4), None, Some(L_Sprint7FIDSIN),
          At(2024, 10, 7, 0), None, None, None, Done_v),
    MkRow(E_InDevelopment, T_HDU, Pts(2), Pts(3), Some(L_Sprint7FIDSIN),
          At(2024, 10, 7, 0), None, None, None, Done_v),
    MkRow(E_ReadyRelease, T_Bug, Pts(2), None, Some(L_Sprint8),
          At(2024, 10, 7, 0), At(2024, 10, 8, 0), None, None, Done_v),
    MkRow(E_ReadyRelease, T_Solicitud, Pts(8), None, Some(L_Sprint8),
          At(2024, 10, 7, 0), At(2024, 10, 9, 0), None, None, Done_v),
    MkRow(E_InDevelopment, T_Solicitud, Pts(5), Pts(2), Some(L_Sprint8),
          At(2024, 10, 7, 0), None, None, None, Done_v) }

\* Scenario "edge": missing and zero points, text numerals, unmapped and mixed labels.
EdgeRows == {
    MkRow(E_Produccion, T_HDU, None, Pts(3), Some(L_Sprint7),
          At(2024, 10, 7, 0), At(2024, 10, 11, 0), None, None, Done_v),
    MkRow(E_InDevelopment, T_Bug, Pts(0), None, Some(L_Sprint7),
          At(2024, 10, 7, 0), None, None, None, Some(Str(X_V_sp))),
    MkRow(E_Produccion, T_Bug, Some(Str(X_2c0)), None, Some(L_Sprint08X),
          At(2024, 10, 7, 0), At(2024, 10, 8, 0), None, None, Done_v),
    MkRow(E_InDevelopment, T_HDU, Pts(3), Pts(2), Some(L_sprint9),
          At(2024, 10, 7, 0), None, None, None, Done_v),
    MkRow(E_Produccion, T_HDU, Pts(1), None, Some(L_Sprint9),
          None, At(2024, 10, 11, 0), None, None, Some(Bool(TRUE))),
    MkRow(E_Produccion, T_Solicitud, Pts(0), None, Some(L_ReleaseCandidate),
          At(2024, 10, 7, 0), At(2024, 10, 7, 0), None, None, Done_v),
    MkRow(E_Produccion, T_HDU, Pts(5), Pts(0), Some(L_Sprint7),
          At(2024, 10, 7, 0), At(2024, 10, 9, 0), None, None, Done_v),
    MkRow(E_InDevelopment, T_HDU, None, None, Some(L_Sprint8),
          At(2024, 10, 7, 0), None, None, None, Done_v),
    MkRow(E_Produccion, T_Bug, Pts(0), None, Some(L_Sprint9),
          At(2024, 10, 7, 0), At(2024, 10, 8, 0), None, None, Done_v) }

\* Scenario "dates": the date columns a cycle time can be taken from.
DatesRows == {
    MkRow(E_ReadyRelease, T_HDU, Pts(3), None, Some(L_Sprint7),
          At(2024, 10, 7, 9), At(2024, 10, 11, 0), At(2024, 10, 9, 0), None, Done_v),
    MkRow(E_ReadyRelease, T_HDU, Pts(2), None, Some(L_Sprint7),
          At(2024, 10, 7, 0), At(2024, 10, 14, 0), None, None, Done_v),
    MkRow(E_Produccion, T_Bug, Pts(1), None, Some(L_Sprint8),
          None, At(2024, 10, 11, 0), None, None, Done_v),
    MkRow(E_Produccion, T_HDU, Pts(2), None, Some(L_Sprint8),
          At(2024, 10, 10, 0), None, None, At(2024, 10, 11, 0), Done_v),
    MkRow(E_InDevelopment, T_HDU, Pts(3), Pts(1), Some(L_Sprint7),
          At(2024, 10, 7, 0), At(2024, 10, 11, 0), At(2024, 10, 9, 0), None, Done_v),
    MkRow(E_CertificadoQA, T_Solicitud, Pts(2), None, Some(L_Sprint8),
          Some(DateText(X_d_07_10_2024)), Some(DateText(X_dt_2024_10_11_18)), None,
          At(2024, 10, 10, 0), Done_v),
    MkRow(E_ReadyRelease, T_HDU, Pts(1), None, Some(L_Sprint8),
          At(2024, 10, 11, 12), At(2024, 10, 11, 9), Some(DateText(X_garbage)), None, Done_v),
    MkRow(E_CertificadoQA, T_HDU, Pts(0), None, Some(L_Sprint8),
          At(2024, 10, 7, 0), At(2024, 10, 8, 0), None, At(2024, 10, 8, 0), Done_v) }

\* Scenario "unmarked": an export without the 'Sprint Completed?' column.
UnmarkedColumns == FileColumns \ {"Sprint Completed?"}

UnmarkedRows ==
    {[c \in UnmarkedColumns |-> r[c]] : r \in {q \in PointsRows : q["Sprint"] = Some(L_Sprint8)}}

\* Scenario "marker": sprints not marked as completed and a task without a sprint.
MarkerRows == {
    MkRow(E_ReadyRelease, T_HDU, Pts(3), None, Some(L_Sprint7),
          At(2024, 10, 7, 0), At(2024, 10, 9, 0), None, None, Done_v),
    MkRow(E_ReadyRelease, T_HDU, Pts(2), None, Some(L_Sprint7),
          At(2024, 10, 7, 0), At(2024, 10, 9, 0), None, None, None),
    MkRow(E_ReadyRelease, T_Bug, Pts(1), None, Some(L_Sprint8),
          At(2024, 10, 7, 0), At(2024, 10, 8, 0), None, None, Some(Str(X_x))),
    MkRow(E_InDevelopment, T_HDU, Pts(5), None, Some(L_Sprint8),
          At(2024, 10, 7, 0), None, None, None, Some(Bool(FALSE))),
    MkRow(E_ReadyRelease, T_Solicitud, Pts(2), None, None,
          At(2024, 10, 7, 0), At(2024, 10, 8, 0), None, None, Done_v),
    MkRow(E_InDevelopment, T_Solicitud, Pts(4), None, Some(L_Sprint8),
          At(2024, 10, 7, 0), None, None, None, Done_v) }

Scenarios == {"points", "edge", "dates", "unmarked", "marker"}

Catalog(scn) ==
    IF scn = "points" THEN PointsRows
    ELSE IF scn = "edge" THEN EdgeRows
    ELSE IF scn = "dates" THEN DatesRows
    ELSE IF scn = "marker" THEN MarkerRows
    ELSE UnmarkedRows

\* The columns of the export of a scenario.
ScenarioColumns(scn) == IF scn = "unmarked" THEN UnmarkedColumns ELSE FileColumns

\* Largest input table of the "points" scenario.
MaxRows == 4

\* Largest input table of the other scenarios.
MaxRowsSmall == 3

RowLimit(scn) == IF scn = "points" THEN MaxRows ELSE MaxRowsSmall

\* The teams whose export a scenario may be.
ScenarioTeams(scn) == IF scn = "dates" THEN {TEAM_Auto3P, TEAM_FIDREN} ELSE {TEAM_Auto3P}


(***************************************************************************)
(* batch_processor.py: BatchProcessor.                                     *)
(***************************************************************************)
\* BatchProcessor._determine_team_type(team_name)
DetermineTeamType(team_name) ==
    LET team_name_normalized == Upper(Strip(team_name))
    IN  IF \E i \in 1..Len(DEVELOPMENT_TEAMS) :
               \/ Contains(Upper(DEVELOPMENT_TEAMS[i]), team_name_normalized)
               \/ Contains(team_name_normalized, Upper(DEVELOPMENT_TEAMS[i]))
        THEN "En Desarrollo" ELSE "Productivo"

\* determine_team_type(team_name), the module-level function of batch_processor.py.
determine_team_type(team_name) ==
    LET team_name_upper == Upper(Strip(team_name))
    IN  IF \E i \in 1..Len(DEVELOPMENT_TEAMS) :
               Contains(Upper(DEVELOPMENT_TEAMS[i]), team_name_upper)
        THEN "En Desarrollo" ELSE "Productivo"

\* BatchProcessor._get_team_size(team_name) for the team_sizes dictionary given.
GetTeamSize(team_sizes, team_name) ==
    IF \E i \in 1..Len(team_sizes) : team_sizes[i][1] = team_name
    THEN team_sizes[CHOOSE i \in 1..Len(team_sizes) : team_sizes[i][1] = team_name][2]
    ELSE DEFAULT_TEAM_SIZE

\* BatchProcessor._get_delivery_date_column(df, team_type)
GetDeliveryDateColumn(df, team_type) ==
    LET date_columns == IF team_type = "Productivo" THEN DELIVERY_DATE_COLUMNS_PRODUCTIVE
                        ELSE DELIVERY_DATE_COLUMNS_DEVELOPMENT
        default == IF team_type = "Productivo" THEN "Fecha Término" ELSE "Fecha Certificado QA"
        hits == {i \in 1..Len(date_columns) :
                    /\ date_columns[i] \in df.columns
                    /\ \E k \in 1..Len(df.rows) : NotNa(df.rows[k][date_columns[i]])}
    IN  IF hits = {} THEN default
        ELSE date_columns[CHOOSE i \in hits : \A j \in hits : i <= j]

\* A TeamResult.
TeamResult(team_name, team_type, team_size, sprint_metrics, month_metrics, summary, file_path, success, error_message) ==
    [team_name |-> team_name, team_type |-> team_type, team_size |-> team_size,
     sprint_metrics |-> sprint_metrics, month_metrics |-> month_metrics,
     summary |-> summary, file_path |-> file_path, success |-> success,
     error_message |-> error_message]

\* Mutant: a failed team is reported without its failure reason.
FailedResult_NoMessage(team_name, team_type, team_size, file_path, error) ==
    TeamResult(team_name, team_type, team_size, <<>>, <<>>, None, file_path, FALSE, None)

\* The TeamResult returned for a team that failed (lines 211-221 and 240-250).
FailedResult(team_name, team_type, team_size, file_path, error) ==
    TeamResult(team_name, team_type, team_size, <<>>, <<>>, None, file_path, FALSE,
               Some(error))

\* process_single_team, step 4 (lines 224-236): the result built from the calculator.
SuccessResult(team_name, team_type, team_size, file_path, processed_df, types, sprint_metrics) ==
    TeamResult(team_name, team_type, team_size, sprint_metrics,
               CalculateMonthMetrics(processed_df, team_size),
               Some(GetSummary(processed_df, sprint_metrics, team_size, types)),
               file_path, TRUE, None)

\* process_single_team from the processed frame on (lines 210-236).
ResultOfProcessed(team_name, team_type, team_size, file_path, processed_df, types) ==
    IF Len(processed_df.rows) = 0
    THEN FailedResult(team_name, team_type, team_size, file_path,
                      <<"No hay datos válidos después del procesamiento">>)
    ELSE SuccessResult(team_name, team_type, team_size, file_path, processed_df, types,
                       CalculateSprintMetrics(processed_df, team_size, types))

\* process_single_team once processed_df is bound (lines 210-236): the calculator
\* tracks the task types present in the frame.
ProcessLoaded(team_name, team_type, team_size, file_path, processed_df) ==
    ResultOfProcessed(team_name, team_type, team_size, file_path, processed_df,
                      get_task_types_to_track(processed_df, "Tipo Tarea"))

\* process_single_team once step 1 has run (lines 194-250): a load or validation
\* error is caught and reported in the result; otherwise steps 2 and 3 follow.
ResultOfLoad(team_name, team_type, team_size, file_path, sprint_mapping, loaded) ==
    IF ~loaded.ok
    THEN FailedResult(team_name, team_type, team_size, file_path, loaded.error)
    ELSE ProcessLoaded(team_name, team_type, team_size, file_path,
                       process_data(Val(loaded.df), team_type, sprint_mapping,
                                    GetDeliveryDateColumn(Val(loaded.df), team_type)))

\* BatchProcessor.process_single_team(file_path, team_name); the file stands for its path.
ProcessSingleTeam(file, team_name, team_sizes, sprint_mapping) ==
    ResultOfLoad(team_name, DetermineTeamType(team_name), GetTeamSize(team_sizes, team_name),
                 file.name, sprint_mapping, load_and_validate_data(file))

\* BATCH_CONFIG['team_name_regex'] = r'Backlog_Planning_(.+?)_All_Tasks_': its two
\* literal parts.
RE_Prefix ==
    <<"B", "a", "c", "k", "l", "o", "g", "_", "P", "l", "a", "n", "n", "i", "n", "g", "_">>

RE_Suffix ==
    <<"_", "A", "l", "l", "_", "T", "a", "s", "k", "s", "_">>

P_xlsx == <<".", "x", "l", "s", "x">>

\* re.search(regex, filename): the leftmost start, then the shortest non-empty group.
TeamNameRegexSearch(filename) ==
    LET n == Len(filename)
        ends(i) == {j \in (i + Len(RE_Prefix) + 1)..n : MatchAt(RE_Suffix, filename, j)}
        starts == {i \in 1..n : MatchAt(RE_Prefix, filename, i) /\ ends(i) # {}}
    IN  IF starts = {} THEN None
        ELSE LET i == CHOOSE a \in starts : \A b \in starts : a <= b
                 j == CHOOSE a \in ends(i) : \A b \in ends(i) : a <= b
             IN  Some(Slice(filename, i + Len(RE_Prefix), j - 1))

\* BatchProcessor._extract_team_name(filename)
ExtractTeamName(filename) ==
    LET match == TeamNameRegexSearch(filename)
    IN  IF NotNa(match) THEN Some(Strip(Val(match))) ELSE None

\* BatchProcessor.discover_files: (file, team_name) for each globbed file whose name
\* yields a non-empty team name, in glob order.
DiscoverFiles(folder) ==
    LET named == SelectSeq(folder, LAMBDA f : /\ NotNa(ExtractTeamName(f.name))
                                              /\ Val(ExtractTeamName(f.name)) # <<>>)
    IN  [i \in 1..Len(named) |-> <<named[i], Val(ExtractTeamName(named[i].name))>>]

(***************************************************************************)
(* Input folders of a batch run.                                           *)
(***************************************************************************)
\* Backlog_Planning_<team>_All_Tasks_<id>.xlsx
BatchFileName(team, id) == RE_Prefix \o team \o RE_Suffix \o id \o P_xlsx

ExcelFile(name, readable, columns, rows) ==
    [name |-> name, exists |-> TRUE, readable |-> readable, columns |-> columns,
     rows |-> rows]

\* The files a folder may hold: two healthy exports, one without any required column,
\* one that cannot be read, one whose sprints are all unfinished, one with headers
\* only, two whose names give no team name, and the exports of the teams FIDSIN and
\* FIDSIN_2_0.
BatchFiles == {
    ExcelFile(BatchFileName(TEAM_Auto3P, <<"1">>), TRUE, FileColumns,
        << MkRow(E_ReadyRelease, T_Bug, Pts(2), None, Some(L_Sprint8),
                 At(2024, 10, 7, 0), At(2024, 10, 8, 0), None, None, Done_v),
           MkRow(E_ReadyRelease, T_Solicitud, Pts(8), None, Some(L_Sprint8),
                 At(2024, 10, 7, 0), At(2024, 10, 9, 0), None, None, Done_v) >>),
    ExcelFile(BatchFileName(TEAM_FIDREN, <<"2">>), TRUE, FileColumns,
        << MkRow(E_CertificadoQA, T_HDU, Pts(3), None, Some(L_Sprint7),
                 At(2024, 10, 7, 0), At(2024, 10, 11, 0), None, At(2024, 10, 10, 0),
                 Done_v) >>),
    ExcelFile(BatchFileName(TEAM_Beta, <<"3">>), TRUE, {"Comentario"},
        << [c \in {"Comentario"} |-> Some(N_Task)] >>),
    ExcelFile(BatchFileName(TEAM_Gamma, <<"4">>), FALSE, FileColumns, <<>>),
    ExcelFile(BatchFileName(TEAM_P2W, <<"5">>), TRUE, FileColumns,
        << MkRow(E_Produccion, T_HDU, Pts(3), None, Some(L_Sprint7),
                 At(2024, 10, 7, 0), At(2024, 10, 11, 0), None, None,
                 Some(Str(X_x))) >>),
    ExcelFile(BatchFileName(TEAM_Beta, <<"6">>), TRUE, FileColumns, <<>>),
    ExcelFile(BatchFileName(<<>>, <<"7">>), TRUE, FileColumns,
        << MkRow(E_ReadyRelease, T_HDU, Pts(1), None, Some(L_Sprint7),
                 At(2024, 10, 7, 0), At(2024, 10, 8, 0), None, None, Done_v) >>),
    ExcelFile(BatchFileName(<<" ">>, <<"8">>), TRUE, FileColumns,
        << MkRow(E_ReadyRelease, T_HDU, Pts(1), None, Some(L_Sprint7),
                 At(2024, 10, 7, 0), At(2024, 10, 8, 0), None, None, Done_v) >>),
    ExcelFile(BatchFileName(TEAM_FIDSIN, <<"9">>), TRUE, FileColumns,
        << MkRow(E_CertificadoQA, T_HDU, Pts(5), None, Some(L_Sprint7FIDSIN),
                 At(2024, 10, 7, 0), At(2024, 10, 11, 0), None, At(2024, 10, 10, 0),
                 Done_v) >>),
    ExcelFile(BatchFileName(TEAM_FIDSIN_2_0, <<"10">>), TRUE, FileColumns,
        << MkRow(E_CertificadoQA, T_HDU, Pts(2), None, Some(L_Sprint8),
                 At(2024, 10, 7, 0), At(2024, 10, 9, 0), None, At(2024, 10, 8, 0),
                 Done_v) >>) }

\* Most files in a folder.
MaxFiles == 3

\* The team_sizes dictionaries a BatchProcessor is constructed with.
TeamSizesInputs == { <<>>, << <<TEAM_FIDREN, 3>> >> }

(***************************************************************************)
(* Inputs of calculate_business_days.                                      *)
(***************************************************************************)
\* First calendar date of the window the dates are drawn from (a Saturday).
WindowStart == Ymd2Ord(2024, 9, 14)

\* Number of calendar dates in the window: 2024-09-14 .. 2024-10-14.
WindowDays == 31

\* The values handed to calculate_business_days: nothing, datetimes at midnight and
\* at noon, and strings in and out of the accepted formats.
DateInputs ==
    {None, Some(DateText(X_d_07_10_2024)), Some(DateText(X_dt_2024_10_11_18)),
     Some(DateText(X_garbage))}
    \cup {Some(DateTime(WindowStart + k, h * 3600)) : k \in 0..(WindowDays - 1), h \in {0, 12}}

(***************************************************************************)
(* Inputs of extract_sprint_number and map_sprint_to_month.                *)
(***************************************************************************)
\* The sprint labels are assembled from a leading pad, the word, a gap, a number
\* and a tail.
LabelPads == {<<>>, <<" ">>}

LabelWords == {T_Sprint, <<"s", "p", "r", "i", "n", "t">>, <<"S", "P", "R", "I", "N", "T">>, <<"S", "p", "r", "i", "n">>}

LabelGaps == {<<>>, <<" ">>, <<" ", " ">>}

LabelNumbers == {<<>>, <<"7">>, <<"0", "7">>, <<"0", "3">>, <<"1", "0">>, <<"0", "8">>, <<"0", "9">>, <<"7", "0">>, <<"0">>}

LabelTails == {<<>>, <<" ", "F", "I", "D", "S", "I", "N">>, <<" ", "A", "u", "t", "o", "3", "P">>, <<" ", "P", "r", "o", "y", "e", "c", "t", "o", " ", "X">>, <<" ", "S", "p", "r", "i", "n", "t", " ", "9">>, <<" ">>}

SprintLabels ==
    {p \o w \o g \o n \o t : p \in LabelPads, w \in LabelWords, g \in LabelGaps, n \in LabelNumbers, t \in LabelTails}

\* The sprint_mapping of test_unified_sprints.py, PRUEBA 3.
TEST_SPRINT_MAPPING ==
    << <<K_Sprint7, M_Octubre>>, <<K_Sprint8, M_Octubre>>, <<K_Sprint9, M_Noviembre>> >>

\* A mapping given on the command line with the later sprint written first.
LateFirstMapping == << <<K_Sprint9, M_Noviembre>>, <<K_Sprint7, M_Octubre>> >>

SprintMappings == {TEST_SPRINT_MAPPING, DEFAULT_SPRINT_MAPPING, LateFirstMapping}

(***************************************************************************)
(* Inputs of load_and_validate_data.                                       *)
(***************************************************************************)
\* The rows of the files handed to the loader: one task with a sprint, one without.
LoadRows == <<
    MkRow(E_ReadyRelease, T_HDU, Pts(3), None, Some(L_Sprint7),
          At(2024, 10, 7, 0), At(2024, 10, 11, 0), None, None, Done_v),
    MkRow(E_InDevelopment, T_Bug, Pts(1), None, None,
          At(2024, 10, 7, 0), None, None, None, Done_v) >>

\* The optional columns a file may lack together.
LoadOptionalMissing == {{}, {"Puntos Logrados", "Fecha Término"}}

\* The files handed to the loader: any set of required columns and some optional ones
\* may be absent, the sheet holds any sub-list of LoadRows, and the file may be missing
\* or unreadable.
LoadFiles ==
    {[name |-> BatchFileName(TEAM_Auto3P, <<"1">>), exists |-> e, readable |-> r,
      columns |-> FileColumns \ (req \cup opt),
      rows |-> [i \in 1..Len(rows) |-> [c \in FileColumns \ (req \cup opt) |-> rows[i][c]]]] :
        e \in BOOLEAN, r \in BOOLEAN, req \in SUBSET SeqToSet(REQUIRED_COLUMNS),
        opt \in LoadOptionalMissing,
        rows \in {<<>>, <<LoadRows[1]>>, <<LoadRows[2]>>, LoadRows}}

(***************************************************************************)
(* Inputs of a MetricsCalculator.                                          *)
(***************************************************************************)
\* Most rows in a file a calculator is built from.
MaxCalcRows == 2

\* The sheets: the lists of distinct rows of the "edge" scenario, up to MaxCalcRows.
CalcSheets ==
    UNION {{q \in [1..k -> EdgeRows] : \A i, j \in 1..k : q[i] = q[j] => i = j} :
              k \in 1..MaxCalcRows}

(***************************************************************************)
(* State.                                                                  *)
(***************************************************************************)
VARIABLES
    pc,                   \* position of the run
    scn,                  \* scenario the input rows are drawn from
    file,                 \* the single team's input file
    team_name,            \* name of the single team
    raw_df,               \* table returned by load_and_validate_data
    delivery_date_column, \* column handed to DataProcessor
    processed_df,         \* table returned by process_data
    sprint_metrics,       \* MetricsCalculator.sprint_metrics
    month_metrics,        \* MetricsCalculator.month_metrics
    summary,              \* MetricsCalculator.get_summary()
    error_message,        \* message of the exception that ended the run
    start_date,           \* calculate_business_days argument
    end_date,             \* calculate_business_days argument
    business_days,        \* calculate_business_days return value
    folder,               \* files matched by the glob, in glob order
    team_sizes,           \* BatchProcessor.team_sizes
    discovered_files,     \* local of process_all
    results,              \* BatchProcessor.results
    sprint_name,          \* a value of the 'Sprint' column
    sprint_mapping,       \* DataProcessor.sprint_mapping
    sprint_unified,       \* extract_sprint_number(sprint_name)
    month,                \* map_sprint_to_month(sprint_name)
    last_call,            \* latest method called on the MetricsCalculator, and its error
    summary_row           \* the team's row of the batch report's summary sheet

vars == <<pc, scn, file, team_name, raw_df, delivery_date_column, processed_df,
          sprint_metrics, month_metrics, summary, error_message, start_date, end_date,
          business_days, folder, team_sizes, discovered_files, results,
          sprint_name, sprint_mapping, sprint_unified, month, last_call, summary_row>>

teamVars == <<scn, file, team_name, raw_df, delivery_date_column, processed_df,
              sprint_metrics, month_metrics, summary, error_message>>

bdVars == <<start_date, end_date, business_days>>

batchVars == <<folder, team_sizes, discovered_files, results>>

TeamIdle ==
    /\ scn = "none" /\ file = None /\ team_name = None /\ raw_df = None
    /\ delivery_date_column = None /\ processed_df = None /\ sprint_metrics = None
    /\ month_metrics = None /\ summary = None /\ error_message = None

BdIdle == start_date = None /\ end_date = None /\ business_days = None

BatchIdle ==
    folder = <<>> /\ team_sizes = <<>> /\ discovered_files = <<>> /\ results = <<>>

labelVars == <<sprint_name, sprint_mapping, sprint_unified, month>>

LabelIdle ==
    sprint_name = None /\ sprint_mapping = <<>> /\ sprint_unified = None /\ month = None

\* No method of a MetricsCalculator has been called.
NoCall == [method |-> "none", error |-> None]

CalcIdle == last_call = NoCall

\* No row of the batch report has been written.
ReportIdle == summary_row = None

(***************************************************************************)
(* Single-team run: main.py / process_single_team, one step per call.      *)
(***************************************************************************)
Init ==
    /\ pc = "input"
    /\ scn \in Scenarios
    /\ team_name \in ScenarioTeams(scn)
    /\ file = ExcelFile(BatchFileName(team_name, <<"1">>), TRUE, ScenarioColumns(scn), <<>>)
    /\ raw_df = None /\ delivery_date_column = None /\ processed_df = None
    /\ sprint_metrics = None /\ month_metrics = None /\ summary = None
    /\ error_message = None
    /\ BdIdle /\ BatchIdle /\ LabelIdle /\ CalcIdle /\ ReportIdle

\* One more task is exported to the team's file.
AddRow ==
    /\ pc = "input"
    /\ Len(file.rows) < RowLimit(scn)
    /\ \E r \in Catalog(scn) \ SeqToSet(file.rows) :
           file' = [file EXCEPT !.rows = Append(@, r)]
    /\ UNCHANGED <<pc, scn, team_name, raw_df, delivery_date_column, processed_df,
                   sprint_metrics, month_metrics, summary, error_message>>
    /\ UNCHANGED <<bdVars, batchVars, labelVars, last_call, summary_row>>

\* df = load_and_validate_data(file_path); the file may have vanished or be corrupt.
LoadAndValidate ==
    /\ pc = "input"
    /\ \E exists \in BOOLEAN, readable \in BOOLEAN :
          LET loaded == load_and_validate_data(
                            [file EXCEPT !.exists = exists, !.readable = readable])
          IN  IF loaded.ok
              THEN /\ raw_df' = loaded.df
                   /\ pc' = "loaded"
                   /\ UNCHANGED error_message
              ELSE /\ error_message' = Some(loaded.error)
                   /\ pc' = "failed"
                   /\ UNCHANGED raw_df
    /\ UNCHANGED <<scn, file, team_name, delivery_date_column, processed_df,
                   sprint_metrics, month_metrics, summary>>
    /\ UNCHANGED <<bdVars, batchVars, labelVars, last_call, summary_row>>

\* delivery_date_column = _get_delivery_date_column(df, team_type);
\* processed_df = process_data(df, team_type, sprint_mapping, delivery_date_column)
ProcessData ==
    /\ pc = "loaded"
    /\ LET team_type == DetermineTeamType(team_name)
           column    == GetDeliveryDateColumn(Val(raw_df), team_type)
       IN  /\ delivery_date_column' = Some(column)
           /\ processed_df' =
                  Some(process_data(Val(raw_df), team_type, DEFAULT_SPRINT_MAPPING, column))
           /\ IF Len(Val(processed_df').rows) = 0
              THEN /\ pc' = "failed"
                   /\ error_message' =
                          Some(<<"No hay datos válidos después del procesamiento">>)
              ELSE /\ pc' = "processed"
                   /\ UNCHANGED error_message
    /\ UNCHANGED <<scn, file, team_name, raw_df, sprint_metrics, month_metrics, summary>>
    /\ UNCHANGED <<bdVars, batchVars, labelVars, last_call, summary_row>>

\* calculator = MetricsCalculator(processed_df, team_size); calculator.calculate_all_metrics()
CalculateAllMetrics ==
    /\ pc = "processed"
    /\ LET team_size == GetTeamSize(<<>>, team_name)
           types == get_task_types_to_track(Val(processed_df), "Tipo Tarea")
       IN  /\ sprint_metrics' = Some(CalculateSprintMetrics(Val(processed_df), team_size, types))
           /\ month_metrics' = Some(CalculateMonthMetrics(Val(processed_df), team_size))
    /\ pc' = "calculated"
    /\ UNCHANGED <<scn, file, team_name, raw_df, delivery_date_column, processed_df,
                   summary, error_message>>
    /\ UNCHANGED <<bdVars, batchVars, labelVars, last_call, summary_row>>

\* calculator.get_summary()
GetSummaryStep ==
    /\ pc = "calculated"
    /\ LET team_size == GetTeamSize(<<>>, team_name)
           types == get_task_types_to_track(Val(processed_df), "Tipo Tarea")
       IN  summary' = Some(GetSummary(Val(processed_df), Val(sprint_metrics), team_size, types))
    /\ pc' = "done"
    /\ UNCHANGED <<scn, file, team_name, raw_df, delivery_date_column, processed_df,
                   sprint_metrics, month_metrics, error_message>>
    /\ UNCHANGED <<bdVars, batchVars, labelVars, last_call, summary_row>>

\* BatchReportGenerator._create_summary_sheet: the row of this team's result.
CreateSummarySheetRow ==
    /\ pc = "done"
    /\ summary_row' = Some(SummarySheetRow(Val(summary), Val(sprint_metrics)))
    /\ pc' = "reported"
    /\ UNCHANGED <<teamVars, bdVars, batchVars, labelVars, last_call>>

Next ==
    \/ AddRow \/ LoadAndValidate \/ ProcessData \/ CalculateAllMetrics \/ GetSummaryStep
    \/ CreateSummarySheetRow

Spec == Init /\ [][Next]_vars

(***************************************************************************)
(* calculate_business_days called on a pair of values.                     *)
(***************************************************************************)
InitBD ==
    /\ pc = "bd_call"
    /\ start_date \in DateInputs
    /\ end_date \in DateInputs
    /\ business_days = None
    /\ TeamIdle /\ BatchIdle /\ LabelIdle /\ CalcIdle /\ ReportIdle

\* business_days = calculate_business_days(start_date, end_date)
CalculateBusinessDays ==
    /\ pc = "bd_call"
    /\ business_days' = calculate_business_days(start_date, end_date)
    /\ pc' = "bd_return"
    /\ UNCHANGED <<start_date, end_date, teamVars, batchVars, labelVars, last_call, summary_row>>

NextBD == CalculateBusinessDays

SpecBD == InitBD /\ [][NextBD]_vars

(***************************************************************************)
(* BatchProcessor.process_all over a folder.                               *)
(***************************************************************************)
InitBatch ==
    /\ pc = "batch_folder"
    /\ folder = <<>>
    /\ team_sizes \in TeamSizesInputs
    /\ discovered_files = <<>>
    /\ results = <<>>
    /\ TeamIdle /\ BdIdle /\ LabelIdle /\ CalcIdle /\ ReportIdle

\* One more file matches the glob of the folder.
AddFile ==
    /\ pc = "batch_folder"
    /\ Len(folder) < MaxFiles
    /\ \E f \in BatchFiles \ SeqToSet(folder) : folder' = Append(folder, f)
    /\ UNCHANGED <<pc, team_sizes, discovered_files, results, teamVars, bdVars, labelVars, last_call, summary_row>>

\* process_all, lines 259-266: discover, raise when nothing was found, reset results.
Discover ==
    /\ pc = "batch_folder"
    /\ discovered_files' = DiscoverFiles(folder)
    /\ pc' = IF discovered_files' = <<>> THEN "batch_raised" ELSE "batch_loop"
    /\ results' = <<>>
    /\ UNCHANGED <<folder, team_sizes, teamVars, bdVars, labelVars, last_call, summary_row>>

\* One iteration of the for loop of process_all.
ProcessNextTeam ==
    /\ pc = "batch_loop"
    /\ Len(results) < Len(discovered_files)
    /\ LET next == discovered_files[Len(results) + 1]
       IN  results' = Append(results,
                             ProcessSingleTeam(next[1], next[2], team_sizes,
                                               DEFAULT_SPRINT_MAPPING))
    /\ UNCHANGED <<pc, folder, team_sizes, discovered_files, teamVars, bdVars, labelVars, last_call, summary_row>>

\* return self.results
ReturnResults ==
    /\ pc = "batch_loop"
    /\ Len(results) = Len(discovered_files)
    /\ pc' = "batch_return"
    /\ UNCHANGED <<folder, team_sizes, discovered_files, results, teamVars, bdVars, labelVars, last_call, summary_row>>

NextBatch == AddFile \/ Discover \/ ProcessNextTeam \/ ReturnResults

SpecBatch == InitBatch /\ [][NextBatch]_vars

(***************************************************************************)
(* One value of the 'Sprint' column through _add_calculated_columns and    *)
(* _add_month_mapping.                                                     *)
(***************************************************************************)
InitLabel ==
    /\ pc = "label_input"
    /\ sprint_name \in SprintLabels
    /\ sprint_mapping \in SprintMappings
    /\ sprint_unified = None
    /\ month = None
    /\ TeamIdle /\ BdIdle /\ BatchIdle /\ CalcIdle /\ ReportIdle

\* df['Sprint_Unified'] = df['Sprint'].apply(extract_sprint_number)
ExtractSprintNumber ==
    /\ pc = "label_input"
    /\ sprint_unified' = Some(extract_sprint_number(sprint_name))
    /\ pc' = "label_unified"
    /\ UNCHANGED <<sprint_name, sprint_mapping, month, teamVars, bdVars, batchVars, last_call, summary_row>>

\* df['Month'] = df['Sprint'].apply(map_sprint_to_month)
MapSprintToMonthStep ==
    /\ pc = "label_unified"
    /\ month' = MapSprintToMonth(sprint_name, sprint_mapping)
    /\ pc' = "label_mapped"
    /\ UNCHANGED <<sprint_name, sprint_mapping, sprint_unified, teamVars, bdVars, batchVars, last_call, summary_row>>

NextLabel == ExtractSprintNumber \/ MapSprintToMonthStep

SpecLabel == InitLabel /\ [][NextLabel]_vars

(***************************************************************************)
(* load_and_validate_data called on a file.                                *)
(***************************************************************************)
InitLoad ==
    /\ pc = "load_call"
    /\ file \in LoadFiles
    /\ scn = "none" /\ team_name = None /\ raw_df = None
    /\ delivery_date_column = None /\ processed_df = None /\ sprint_metrics = None
    /\ month_metrics = None /\ summary = None /\ error_message = None
    /\ BdIdle /\ BatchIdle /\ LabelIdle /\ CalcIdle /\ ReportIdle

\* df = load_and_validate_data(file_path), or the ValueError it raises.
LoadAndValidateData ==
    /\ pc = "load_call"
    /\ IF load_and_validate_data(file).ok
       THEN /\ raw_df' = load_and_validate_data(file).df
            /\ pc' = "load_return"
            /\ UNCHANGED error_message
       ELSE /\ error_message' = Some(load_and_validate_data(file).error)
            /\ pc' = "load_raised"
            /\ UNCHANGED raw_df
    /\ UNCHANGED <<scn, file, team_name, delivery_date_column, processed_df,
                   sprint_metrics, month_metrics, summary>>
    /\ UNCHANGED <<bdVars, batchVars, labelVars, last_call, summary_row>>

NextLoad == LoadAndValidateData

SpecLoad == InitLoad /\ [][NextLoad]_vars

(***************************************************************************)
(* A MetricsCalculator and the calls made on it, in any order.             *)
(***************************************************************************)
\* calculator = MetricsCalculator(processed_df, team_size)
InitCalc ==
    /\ pc = "calc_new"
    /\ team_name = TEAM_Auto3P
    /\ \E rows \in CalcSheets :
          /\ file = ExcelFile(BatchFileName(team_name, <<"1">>), TRUE, FileColumns, rows)
          /\ raw_df = load_and_validate_data(file).df
          /\ delivery_date_column = Some("Fecha Término")
          /\ processed_df = Some(process_data(Val(raw_df), DetermineTeamType(team_name),
                                               DEFAULT_SPRINT_MAPPING, "Fecha Término"))
    /\ scn = "edge"
    /\ sprint_metrics = None /\ month_metrics = None /\ summary = None
    /\ error_message = None
    /\ last_call = NoCall
    /\ BdIdle /\ BatchIdle /\ LabelIdle /\ ReportIdle

\* calculator.calculate_all_metrics()
CalculateAllMetricsCall ==
    /\ pc \in {"calc_new", "calc_ready"}
    /\ LET team_size == GetTeamSize(<<>>, team_name)
           types == get_task_types_to_track(Val(processed_df), "Tipo Tarea")
       IN  /\ sprint_metrics' = Some(CalculateSprintMetrics(Val(processed_df), team_size, types))
           /\ month_metrics' = Some(CalculateMonthMetrics(Val(processed_df), team_size))
    /\ pc' = "calc_ready"
    /\ last_call' = [method |-> "calculate_all_metrics", error |-> None]
    /\ UNCHANGED <<scn, file, team_name, raw_df, delivery_date_column, processed_df,
                   summary, error_message>>
    /\ UNCHANGED <<bdVars, batchVars, labelVars, summary_row>>

\* calculator.get_sprint_metrics()
GetSprintMetrics ==
    /\ pc \in {"calc_new", "calc_ready"}
    /\ last_call' =
           [method |-> "get_sprint_metrics",
            error |-> NotCalculatedError(sprint_metrics,
                          "Las métricas no han sido calculadas. Ejecute calculate_all_metrics() primero.")]
    /\ UNCHANGED <<pc, teamVars, bdVars, batchVars, labelVars, summary_row>>

\* calculator.get_month_metrics()
GetMonthMetrics ==
    /\ pc \in {"calc_new", "calc_ready"}
    /\ last_call' =
           [method |-> "get_month_metrics",
            error |-> NotCalculatedError(month_metrics,
                          "Las métricas no han sido calculadas. Ejecute calculate_all_metrics() primero.")]
    /\ UNCHANGED <<pc, teamVars, bdVars, batchVars, labelVars, summary_row>>

\* calculator.get_summary()
GetSummaryCall ==
    /\ pc \in {"calc_new", "calc_ready"}
    /\ last_call' =
           [method |-> "get_summary",
            error |-> NotCalculatedError(sprint_metrics, "Las métricas no han sido calculadas.")]
    /\ IF last_call'.error # None
       THEN UNCHANGED summary
       ELSE summary' = Some(GetSummary(Val(processed_df), Val(sprint_metrics),
                                       GetTeamSize(<<>>, team_name),
                                       get_task_types_to_track(Val(processed_df), "Tipo Tarea")))
    /\ UNCHANGED <<pc, scn, file, team_name, raw_df, delivery_date_column, processed_df,
                   sprint_metrics, month_metrics, error_message>>
    /\ UNCHANGED <<bdVars, batchVars, labelVars, summary_row>>

NextCalc == CalculateAllMetricsCall \/ GetSprintMetrics \/ GetMonthMetrics \/ GetSummaryCall

SpecCalc == InitCalc /\ [][NextCalc]_vars

(***************************************************************************)
(* Properties of the batch run.                                            *)
(***************************************************************************)
\* The sequence q without its k-th element.
RemoveAt(q, k) == [i \in 1..(Len(q) - 1) |-> IF i < k THEN q[i] ELSE q[i + 1]]

\* What process_all returns for a folder in which it finds at least one team file.
ProcessAll(fld, sizes) ==
    LET found == DiscoverFiles(fld)
    IN  [i \in 1..Len(found) |->
            ProcessSingleTeam(found[i][1], found[i][2], sizes, DEFAULT_SPRINT_MAPPING)]

\* The position in the folder of the i-th discovered file.
FolderIndex(i) == CHOOSE k \in 1..Len(folder) : folder[k] = discovered_files[i][1]

\* C1: process_all returns exactly one TeamResult per discovered team file, in
\* discovery order. A team whose load, validation, processing or metrics fail has
\* success = FALSE and a non-empty error message, process_all does not raise (it raises
\* only when no team file was discovered at all), and every other team has the result
\* it would have had if the failing file were absent from the folder.
C1_PartialFailureIsolation ==
    /\ pc = "batch_raised" => discovered_files = <<>>
    /\ pc \in {"batch_loop", "batch_return"} =>
          /\ discovered_files # <<>>
          /\ Len(results) <= Len(discovered_files)
          /\ \A i \in 1..Len(results) :
                /\ results[i].file_path = discovered_files[i][1].name
                /\ results[i].team_name = discovered_files[i][2]
                /\ ~results[i].success =>
                      /\ NotNa(results[i].error_message)
                      /\ Val(results[i].error_message) # <<>>
                      /\ \A p \in 1..Len(Val(results[i].error_message)) :
                            Val(results[i].error_message)[p] # ""
    /\ pc = "batch_return" =>
          /\ Len(results) = Len(discovered_files)
          /\ \A i \in 1..Len(results) :
                ~results[i].success /\ Len(results) > 1 =>
                    RemoveAt(results, i) = ProcessAll(RemoveAt(folder, FolderIndex(i)), team_sizes)

\* C1 witness: a folder of three team files, one of them without any required column,
\* has been processed: three results, two successes and one failure.
C1_Witness ==
    /\ pc = "batch_return"
    /\ Len(folder) = 3 /\ Len(results) = 3
    /\ \E i \in 1..3 :
          /\ folder[i].columns = {"Comentario"}
          /\ ~results[i].success
          /\ \A j \in (1..3) \ {i} : results[j].success

(***************************************************************************)
(* Properties of the sprint records of a single-team run.                  *)
(***************************************************************************)
\* Sum over the index set I of the values of the function f.
RECURSIVE SumOver(_, _)
SumOver(I, f) ==
    IF I = {} THEN 0
    ELSE LET i == CHOOSE x \in I : TRUE IN f[i] + SumOver(I \ {i}, f)

\* The metrics have been computed from the processed table.
MetricsReady == pc \in {"calculated", "done"}

Tasks == Val(processed_df).rows

\* Estimated and achieved points of task i, a null counting as 0.
Est == [i \in 1..Len(Tasks) |->
           IF NotNa(Tasks[i]["Estimación Original"]) THEN Val(Tasks[i]["Estimación Original"])
           ELSE 0]

Ach == [i \in 1..Len(Tasks) |->
           IF NotNa(Tasks[i]["Puntos Logrados"]) THEN Val(Tasks[i]["Puntos Logrados"]) ELSE 0]

\* The task set S of a unified sprint, its delivered subset D and the bugs among D.
SprintTasks(sprint) == {i \in 1..Len(Tasks) : Tasks[i]["Sprint_Unified"] = sprint}

SprintDelivered(sprint) == {i \in SprintTasks(sprint) : Tasks[i]["Is_Delivered"]}

SprintDeliveredBugs(sprint) ==
    {i \in SprintDelivered(sprint) : Contains(T_bug, Lower(Tasks[i]["Tipo Tarea"]))}

SprintRecords == Val(sprint_metrics)

\* Every unified sprint of the processed table has exactly one record.
OneRecordPerSprint ==
    /\ \A i \in 1..Len(Tasks) :
          \E k \in 1..Len(SprintRecords) : SprintRecords[k].Sprint = Tasks[i]["Sprint_Unified"]
    /\ \A k, l \in 1..Len(SprintRecords) :
          SprintRecords[k].Sprint = SprintRecords[l].Sprint => k = l
    /\ \A k \in 1..Len(SprintRecords) : SprintTasks(SprintRecords[k].Sprint) # {}

\* C2: for every unified sprint with task set S and delivered subset D, Velocity is the
\* sum of estimated points over D plus the sum over S \ D of achieved points, a null
\* achieved value counting as 0; estimates of undelivered tasks and achieved points of
\* delivered tasks do not contribute.
C2_SprintVelocity ==
    MetricsReady =>
        /\ OneRecordPerSprint
        /\ \A k \in 1..Len(SprintRecords) :
              LET S == SprintTasks(SprintRecords[k].Sprint)
                  D == SprintDelivered(SprintRecords[k].Sprint)
              IN  SprintRecords[k].Velocity = SumOver(D, Est) + SumOver(S \ D, Ach)

\* C2 witness: a sprint holding a delivered task whose achieved points differ from its
\* estimate and an undelivered task with achieved points that differ from its estimate.
C2_Witness ==
    /\ MetricsReady
    /\ \E k \in 1..Len(SprintRecords) :
          LET S == SprintTasks(SprintRecords[k].Sprint)
              D == SprintDelivered(SprintRecords[k].Sprint)
          IN  /\ \E i \in D : NotNa(Tasks[i]["Puntos Logrados"]) /\ Ach[i] # Est[i]
              /\ \E j \in S \ D : Ach[j] > 0 /\ Ach[j] # Est[j] /\ Est[j] > 0
              /\ \E j \in S \ D : IsNa(Tasks[j]["Puntos Logrados"]) /\ Est[j] > 0

\* C3: for every unified sprint, Predictability is 100 * (estimated points of delivered
\* tasks) / (estimated points of all tasks of the sprint), and is null, neither 0 nor an
\* error, when that denominator is 0.
C3_SprintPredictability ==
    MetricsReady =>
        \A k \in 1..Len(SprintRecords) :
            LET S == SprintTasks(SprintRecords[k].Sprint)
                D == SprintDelivered(SprintRecords[k].Sprint)
            IN  SprintRecords[k].Predictability =
                    IF SumOver(S, Est) = 0 THEN None
                    ELSE Some(Frac(100 * SumOver(D, Est), SumOver(S, Est)))

\* C3 witness: one sprint with a zero denominator and a null predictability beside a
\* sprint whose predictability is strictly between 0 and 100.
C3_Witness ==
    /\ MetricsReady
    /\ \E k \in 1..Len(SprintRecords) :
          /\ SumOver(SprintTasks(SprintRecords[k].Sprint), Est) = 0
          /\ SprintRecords[k].Predictability = None
    /\ \E k \in 1..Len(SprintRecords) :
          /\ NotNa(SprintRecords[k].Predictability)
          /\ Val(SprintRecords[k].Predictability).n > 0
          /\ Val(SprintRecords[k].Predictability).n < 100 * Val(SprintRecords[k].Predictability).d

\* The sprint of record k consists of exactly four tasks: two delivered with estimates
\* 5 and 3, two undelivered with estimates 4 and 2.
FourTaskSprint(k) ==
    LET S == SprintTasks(SprintRecords[k].Sprint)
        D == SprintDelivered(SprintRecords[k].Sprint)
    IN  /\ Cardinality(S) = 4 /\ Cardinality(D) = 2
        /\ \A i \in S : NotNa(Tasks[i]["Estimación Original"])
        /\ \E a, b \in D : a # b /\ Est[a] = 5 /\ Est[b] = 3
        /\ \E c, d \in S \ D : c # d /\ Est[c] = 4 /\ Est[d] = 2

\* C4 (as amended): for a sprint of exactly four tasks, two delivered with estimates 5
\* and 3 and two undelivered with estimates 4 and 2, the record has committed points
\* 14, delivered points 8 and predictability 100 * 8 / 14 (about 57.14%).
C4_FourTaskSprint ==
    MetricsReady =>
        \A k \in 1..Len(SprintRecords) :
            FourTaskSprint(k) =>
                /\ SprintRecords[k].Committed_Points = 14
                /\ SprintRecords[k].Delivered_Points = 8
                /\ SprintRecords[k].Predictability = Some(Frac(800, 14))

\* C4 witness: the metrics of such a four-task sprint have been computed.
C4_Witness ==
    /\ MetricsReady
    /\ \E k \in 1..Len(SprintRecords) :
          FourTaskSprint(k) /\ SprintRecords[k].Committed_Points = 14

\* C4 as stated: the same sprint has committed points 20, delivered points 8 and
\* predictability 40.0%.
C4_AsStated ==
    MetricsReady =>
        \A k \in 1..Len(SprintRecords) :
            FourTaskSprint(k) =>
                /\ SprintRecords[k].Committed_Points = 20
                /\ SprintRecords[k].Delivered_Points = 8
                /\ SprintRecords[k].Predictability = Some(Frac(40, 1))

\* C5: for every unified sprint, Rework is 100 * (estimated points of delivered bug
\* tasks) / (estimated points of all delivered tasks) and is null when that denominator
\* is 0; a sprint whose only tasks are a delivered bug estimated 2 and a delivered
\* feature estimated 8 has velocity 10 and rework 20%.
C5_SprintRework ==
    MetricsReady =>
        \A k \in 1..Len(SprintRecords) :
            LET S == SprintTasks(SprintRecords[k].Sprint)
                D == SprintDelivered(SprintRecords[k].Sprint)
                B == SprintDeliveredBugs(SprintRecords[k].Sprint)
            IN  /\ SprintRecords[k].Rework =
                       IF SumOver(D, Est) = 0 THEN None
                       ELSE Some(Frac(100 * SumOver(B, Est), SumOver(D, Est)))
                /\ (/\ S = D /\ Cardinality(S) = 2 /\ Cardinality(B) = 1
                    /\ \E b \in B : Est[b] = 2
                    /\ \E f \in D \ B : Est[f] = 8)
                   => /\ SprintRecords[k].Velocity = 10
                      /\ SprintRecords[k].Rework = Some(Frac(20, 1))

\* C5 witness: the sprint of one delivered bug (2) and one delivered feature (8) next to
\* a sprint that delivered nothing, whose rework is null.
C5_Witness ==
    /\ MetricsReady
    /\ \E k \in 1..Len(SprintRecords) :
          LET D == SprintDelivered(SprintRecords[k].Sprint)
              B == SprintDeliveredBugs(SprintRecords[k].Sprint)
          IN  /\ SprintTasks(SprintRecords[k].Sprint) = D
              /\ Cardinality(D) = 2 /\ Cardinality(B) = 1
              /\ \E b \in B : Est[b] = 2
              /\ \E f \in D \ B : Est[f] = 8
              /\ SprintRecords[k].Rework = Some(Frac(20, 1))
    /\ \E k \in 1..Len(SprintRecords) :
          /\ SprintDelivered(SprintRecords[k].Sprint) = {}
          /\ SprintRecords[k].Rework = None

(***************************************************************************)
(* Properties of the month records of a single-team run.                   *)
(***************************************************************************)
MonthRecords == Val(month_metrics)

\* The tasks of month M and the unified sprints they belong to.
MonthTasks(M) == {i \in 1..Len(Tasks) : Tasks[i]["Month"] = Some(M)}

MonthSprints(M) == {Tasks[i]["Sprint_Unified"] : i \in MonthTasks(M)}

\* The sprint velocity formula applied to the tasks of a unified sprint that lie in M.
VelocityIn(M, sprint) ==
    LET S == SprintTasks(sprint) \cap MonthTasks(M)
        D == SprintDelivered(sprint) \cap MonthTasks(M)
    IN  SumOver(D, Est) + SumOver(S \ D, Ach)

\* C6: for every month, Velocity_Total is the sum and Velocity_Avg the arithmetic mean
\* of the per-sprint velocities of the month's unified sprints, each computed with the
\* sprint velocity formula (and equal to the sprint record's Velocity when the sprint
\* lies in that month); the divisor is the number of unified sprints, so
\* Velocity_Avg * Num_Sprints = Velocity_Total.
C6_MonthVelocity ==
    MetricsReady =>
        /\ \A i \in 1..Len(Tasks) :
              NotNa(Tasks[i]["Month"]) =>
                  \E m \in 1..Len(MonthRecords) : MonthRecords[m].Month = Val(Tasks[i]["Month"])
        /\ \A m \in 1..Len(MonthRecords) :
              LET M      == MonthRecords[m].Month
                  sprints == MonthSprints(M)
                  total  == SumOver(sprints, [u \in sprints |-> VelocityIn(M, u)])
              IN  /\ sprints # {}
                  /\ MonthRecords[m].Num_Sprints = Cardinality(sprints)
                  /\ MonthRecords[m].Velocity_Total = total
                  /\ MonthRecords[m].Velocity_Avg = Some(Frac(total, Cardinality(sprints)))
                  /\ Val(MonthRecords[m].Velocity_Avg).n * MonthRecords[m].Num_Sprints
                         = MonthRecords[m].Velocity_Total * Val(MonthRecords[m].Velocity_Avg).d
                  /\ \A u \in sprints :
                        SprintTasks(u) \subseteq MonthTasks(M) =>
                            \E k \in 1..Len(SprintRecords) :
                                /\ SprintRecords[k].Sprint = u
                                /\ SprintRecords[k].Velocity = VelocityIn(M, u)

\* C6 witness: a month of two unified sprints with unequal task counts and unequal
\* velocities, made of three raw sprint labels, whose average is not a whole number.
C6_Witness ==
    /\ MetricsReady
    /\ \E m \in 1..Len(MonthRecords) :
          LET M == MonthRecords[m].Month
          IN  /\ MonthRecords[m].Num_Sprints = 2
              /\ Cardinality({Tasks[i]["Sprint"] : i \in MonthTasks(M)}) = 3
              /\ \E u, v \in MonthSprints(M) :
                    /\ Cardinality(SprintTasks(u)) > Cardinality(SprintTasks(v))
                    /\ VelocityIn(M, u) # VelocityIn(M, v)
              /\ Val(MonthRecords[m].Velocity_Avg).d = 2

(***************************************************************************)
(* Properties of calculate_business_days.                                  *)
(***************************************************************************)
Returned == pc = "bd_return"

\* The datetime an argument stands for: itself, or what its text reads as.
Parsed(value) == Val(safe_date_conversion(value))

\* An argument that is null or is a text in none of the accepted formats.
NullOrUnparsable(value) == value = None \/ value = Some(DateText(X_garbage))

\* Monday to Friday, counted from Monday 2024-10-07.
IsMonToFri(d) == (d - Ymd2Ord(2024, 10, 7)) % 7 \in 0..4

\* The working dates between two calendar dates, both included.
WorkingDates(first, last) ==
    {d \in first..last : IsMonToFri(d) /\ d \notin HolidayDates(HOLIDAYS)}

Midnight(y, m, d) == Some(DateTime(Ymd2Ord(y, m, d), 0))

\* The call was made on these two midnights and returned n.
Example(s, e, n) == (start_date = s /\ end_date = e) => business_days = Some(n)

\* C7: with both dates present, calculate_business_days(start, end) is the number of
\* calendar dates d, start.date() <= d <= end.date(), that are Monday to Friday and not
\* a configured holiday. So: one non-holiday weekday gives 1, Saturday to Sunday gives
\* 0, 2024-10-07..2024-10-11 gives 5, 2024-10-07..2024-10-14 gives 6,
\* 2024-09-16..2024-09-20 gives 2, and a range of holidays only gives 0.
C7_BusinessDaysCount ==
    (Returned /\ ~NullOrUnparsable(start_date) /\ ~NullOrUnparsable(end_date)) =>
        /\ business_days =
               Some(Cardinality(WorkingDates(Parsed(start_date).ord, Parsed(end_date).ord)))
        /\ (/\ Parsed(start_date) = Parsed(end_date)
            /\ IsMonToFri(Parsed(start_date).ord)
            /\ Parsed(start_date).ord \notin HolidayDates(HOLIDAYS)) => business_days = Some(1)
        /\ (/\ (Parsed(start_date).ord - Ymd2Ord(2024, 10, 7)) % 7 = 5
            /\ Parsed(end_date).ord = Parsed(start_date).ord + 1) => business_days = Some(0)
        /\ Example(Midnight(2024, 10, 7), Midnight(2024, 10, 11), 5)
        /\ Example(Midnight(2024, 10, 7), Midnight(2024, 10, 14), 6)
        /\ Example(Midnight(2024, 9, 16), Midnight(2024, 9, 20), 2)
        /\ Example(Midnight(2024, 9, 18), Midnight(2024, 9, 20), 0)

\* C7 witness: the week of 16 to 20 September 2024, three holidays, was counted as 2.
C7_Witness ==
    /\ Returned
    /\ start_date = Midnight(2024, 9, 16) /\ end_date = Midnight(2024, 9, 20)
    /\ business_days = Some(2)

\* C8 (as amended): the result is null exactly when a date is null or unparsable;
\* otherwise it is never negative, it is 0 whenever end.date() is before start.date(),
\* and when end is earlier than start on the same calendar date it is the count of
\* that single date: 1 on a working date, 0 otherwise.
C8_NullAndReversed ==
    Returned =>
        /\ business_days = None <=> (NullOrUnparsable(start_date) \/ NullOrUnparsable(end_date))
        /\ NotNa(business_days) =>
              /\ Val(business_days) >= 0
              /\ Parsed(end_date).ord < Parsed(start_date).ord => Val(business_days) = 0
              /\ (/\ Parsed(end_date).ord = Parsed(start_date).ord
                  /\ Parsed(end_date).secs < Parsed(start_date).secs) =>
                     Val(business_days) =
                         Cardinality(WorkingDates(Parsed(start_date).ord, Parsed(start_date).ord))

\* C8 witness: a range reversed across a working week returned 0.
C8_Witness ==
    /\ Returned
    /\ start_date = Some(DateTime(Ymd2Ord(2024, 10, 11), 12 * 3600))
    /\ end_date = Midnight(2024, 10, 7)
    /\ business_days = Some(0)

\* C8 as stated: null when a date is null or unparsable, and 0 for every pair of
\* date-times with end < start.
C8_AsStated ==
    Returned =>
        /\ (NullOrUnparsable(start_date) \/ NullOrUnparsable(end_date)) => business_days = None
        /\ (/\ ~NullOrUnparsable(start_date) /\ ~NullOrUnparsable(end_date)
            /\ DtLess(Parsed(end_date), Parsed(start_date))) => business_days = Some(0)

(***************************************************************************)
(* Properties of the cycle time of the task records.                       *)
(***************************************************************************)
\* The table of task records has been produced.
Processed == pc \in {"processed", "calculated", "done"}

\* The value of a date column of task i as a datetime, or None.
DateOf(i, col) == safe_date_conversion(Get(Tasks[i], col))

\* The delivery date the cycle time of task i is taken from: its Ready-for-Production
\* date when present, otherwise its completion date.
Resolved(i) ==
    IF NotNa(DateOf(i, "Fecha Ready for Production"))
    THEN DateOf(i, "Fecha Ready for Production") ELSE DateOf(i, "Fecha Término")

\* business_days(start, end) of two present datetimes.
BusinessDaysBetween(start, end) == Cardinality(WorkingDates(Val(start).ord, Val(end).ord))

\* C9: Cycle_Time_Days is null for a task that is not delivered. For a delivered task
\* the resolved delivery date is its Ready-for-Production date when non-null, otherwise
\* its Fecha Término; Cycle_Time_Days is null if and only if the start date or the
\* resolved date is null, and otherwise is business_days(start, resolved), a
\* non-negative integer.
C9_CycleTime ==
    Processed =>
        \A i \in 1..Len(Tasks) :
            LET ct    == Tasks[i]["Cycle_Time_Days"]
                start == DateOf(i, "Fecha Inicio")
            IN  /\ ~Tasks[i]["Is_Delivered"] => ct = None
                /\ Tasks[i]["Is_Delivered"] =>
                      /\ ct = None <=> (IsNa(start) \/ IsNa(Resolved(i)))
                      /\ NotNa(ct) =>
                            /\ Val(ct) = BusinessDaysBetween(start, Resolved(i))
                            /\ Val(ct) \in Nat

\* C9 witness: a delivered task whose two delivery dates differ and whose cycle time
\* follows the Ready-for-Production date, a delivered task without that date whose
\* cycle time follows Fecha Término, and a task with dates but no cycle time because
\* it is not delivered.
C9_Witness ==
    /\ Processed
    /\ \E i \in 1..Len(Tasks) :
          /\ Tasks[i]["Is_Delivered"]
          /\ NotNa(DateOf(i, "Fecha Ready for Production"))
          /\ NotNa(DateOf(i, "Fecha Término"))
          /\ NotNa(Tasks[i]["Cycle_Time_Days"])
          /\ Val(Tasks[i]["Cycle_Time_Days"]) #
                 BusinessDaysBetween(DateOf(i, "Fecha Inicio"), DateOf(i, "Fecha Término"))
    /\ \E i \in 1..Len(Tasks) :
          /\ Tasks[i]["Is_Delivered"]
          /\ IsNa(DateOf(i, "Fecha Ready for Production"))
          /\ NotNa(Tasks[i]["Cycle_Time_Days"])
    /\ \E i \in 1..Len(Tasks) :
          /\ ~Tasks[i]["Is_Delivered"]
          /\ NotNa(DateOf(i, "Fecha Inicio")) /\ NotNa(Resolved(i))
          /\ Tasks[i]["Cycle_Time_Days"] = None

\* The candidate columns of the team, in order, and the first holding a value in the
\* input table.
Candidates ==
    IF DetermineTeamType(team_name) = "Productivo"
    THEN <<"Fecha Término", "Fecha Ready for Production", "Fecha paso a Producción">>
    ELSE <<"Fecha Término", "Fecha Certificado QA", "Fecha UAT",
           "Fecha Ready for Production", "Fecha paso a Producción">>

HasValue(col) == \E r \in 1..Len(Val(raw_df).rows) : NotNa(Val(raw_df).rows[r][col])

\* C10 as stated: the column handed to DataProcessor is the first candidate of the
\* team variant with a non-null value in the input table, and the cycle time of every
\* delivered task is taken from the task's value in that one column.
C10_AsStated ==
    Processed =>
        /\ \A c \in 1..Len(Candidates) :
              (HasValue(Candidates[c]) /\ \A b \in 1..(c - 1) : ~HasValue(Candidates[b]))
                  => Val(delivery_date_column) = Candidates[c]
        /\ \A i \in 1..Len(Tasks) :
              Tasks[i]["Is_Delivered"] =>
                  LET start == DateOf(i, "Fecha Inicio")
                      end   == DateOf(i, Val(delivery_date_column))
                  IN  Tasks[i]["Cycle_Time_Days"] =
                          IF IsNa(start) \/ IsNa(end) THEN None
                          ELSE Some(BusinessDaysBetween(start, end))

\* C10 divergence: the selected column is Fecha Término and a delivered task with a
\* start date has a cycle time that is not the count up to its Fecha Término.
C10_Divergence ==
    /\ Processed
    /\ Val(delivery_date_column) = "Fecha Término"
    /\ \E i \in 1..Len(Tasks) :
          /\ Tasks[i]["Is_Delivered"]
          /\ NotNa(DateOf(i, "Fecha Inicio")) /\ NotNa(DateOf(i, "Fecha Término"))
          /\ Tasks[i]["Cycle_Time_Days"] = Some(3)
          /\ BusinessDaysBetween(DateOf(i, "Fecha Inicio"), DateOf(i, "Fecha Término")) = 5

(***************************************************************************)
(* Properties of the sprint labels.                                        *)
(***************************************************************************)
\* extract_sprint_number has returned.
Unified == pc \in {"label_unified", "label_mapped"}

\* The word 'sprint' in any case starts at i of s and, after optional white space,
\* a digit follows at j.
SprintThenDigit(s, i, j) ==
    /\ i + Len(T_Sprint) <= j /\ j <= Len(s)
    /\ \A k \in 1..Len(T_Sprint) : LowerChar(s[i + k - 1]) = LowerChar(T_Sprint[k])
    /\ \A k \in (i + Len(T_Sprint))..(j - 1) : IsSpace(s[k])
    /\ IsDigit(s[j])

\* The digits of s from j up to e form a maximal run.
DigitRun(s, j, e) ==
    /\ j <= e /\ e <= Len(s)
    /\ \A k \in j..e : IsDigit(s[k])
    /\ e = Len(s) \/ ~IsDigit(s[e + 1])

\* d is a decimal numeral without leading zeros.
Canonical(d) == Len(d) >= 1 /\ AllDigits(d) /\ (Len(d) = 1 \/ d[1] # "0")

X_Sprint07Auto3P == <<"S", "p", "r", "i", "n", "t", " ", "0", "7", " ", "A", "u", "t", "o", "3", "P">>

X_Sprint03 == <<"S", "p", "r", "i", "n", "t", " ", "0", "3">>

X_Sprint10ProyectoX == <<"S", "p", "r", "i", "n", "t", " ", "1", "0", " ", "P", "r", "o", "y", "e", "c", "t", "o", " ", "X">>

X_Sprint3 == <<"S", "p", "r", "i", "n", "t", " ", "3">>

\* C11: extract_sprint_number(label) takes the first occurrence of 'Sprint' (any case)
\* followed by digits and returns 'Sprint N', N being the number without leading zeros;
\* a label without such a pattern is returned trimmed and otherwise unchanged.
\* 'Sprint 07 FIDSIN' and 'Sprint 07 Auto3P' give 'Sprint 7', 'Sprint 03' gives
\* 'Sprint 3' and 'Sprint 10 Proyecto X' gives 'Sprint 10'.
C11_ExtractSprintNumber ==
    Unified =>
        /\ \A i, j, e \in 1..Len(Strip(sprint_name)) :
               ( /\ SprintThenDigit(Strip(sprint_name), i, j)
                 /\ DigitRun(Strip(sprint_name), j, e)
                 /\ \A a, b \in 1..Len(Strip(sprint_name)) :
                        SprintThenDigit(Strip(sprint_name), a, b) => i <= a )
               => /\ Len(Val(sprint_unified)) > Len(T_SprintSp)
                  /\ SubSeq(Val(sprint_unified), 1, Len(T_SprintSp)) = T_SprintSp
                  /\ Canonical(SubSeq(Val(sprint_unified), Len(T_SprintSp) + 1,
                                      Len(Val(sprint_unified))))
                  /\ StrToInt(SubSeq(Val(sprint_unified), Len(T_SprintSp) + 1,
                                     Len(Val(sprint_unified))))
                       = StrToInt(SubSeq(Strip(sprint_name), j, e))
        /\ (\A i, j \in 1..Len(Strip(sprint_name)) :
                ~SprintThenDigit(Strip(sprint_name), i, j))
               => Val(sprint_unified) = Strip(sprint_name)
        /\ sprint_name \in {L_Sprint07FIDSIN, X_Sprint07Auto3P} => Val(sprint_unified) = K_Sprint7
        /\ sprint_name = X_Sprint03 => Val(sprint_unified) = X_Sprint3
        /\ sprint_name = X_Sprint10ProyectoX => Val(sprint_unified) = K_Sprint10

\* 'Sprint 07 FIDSIN' has been unified to 'Sprint 7'.
C11_Witness ==
    Unified /\ sprint_name = L_Sprint07FIDSIN /\ Val(sprint_unified) = K_Sprint7

\* map_sprint_to_month has returned.
Mapped == pc = "label_mapped"

X_Sprint08FIDSIN == <<"S", "p", "r", "i", "n", "t", " ", "0", "8", " ", "F", "I", "D", "S", "I", "N">>

X_Sprint09FIDSIN == <<"S", "p", "r", "i", "n", "t", " ", "0", "9", " ", "F", "I", "D", "S", "I", "N">>

\* C12: every raw sprint label gets the month that the mapping table configures for
\* its unified sprint key; with 'Sprint 7' and 'Sprint 8' in Octubre and 'Sprint 9' in
\* Noviembre, 'Sprint 07 FIDSIN' and 'Sprint 07 Auto3P' get Octubre, 'Sprint 08 FIDSIN'
\* gets Octubre and 'Sprint 09 FIDSIN' gets Noviembre.
C12_AsStated ==
    Mapped =>
        /\ \A i \in 1..Len(sprint_mapping) :
               sprint_mapping[i][1] = Val(sprint_unified) => month = Some(sprint_mapping[i][2])
        /\ sprint_mapping = TEST_SPRINT_MAPPING =>
               /\ sprint_name \in {L_Sprint07FIDSIN, X_Sprint07Auto3P, X_Sprint08FIDSIN}
                      => month = Some(M_Octubre)
               /\ sprint_name = X_Sprint09FIDSIN => month = Some(M_Noviembre)

\* 'Sprint 07 FIDSIN' is unified to 'Sprint 7', which the table puts in Octubre, and
\* the label itself is left without a month.
C12_Divergence ==
    /\ Mapped
    /\ sprint_mapping = TEST_SPRINT_MAPPING
    /\ sprint_name = L_Sprint07FIDSIN
    /\ sprint_unified = Some(K_Sprint7)
    /\ month = None

(***************************************************************************)
(* Properties of the task records of a single-team run.                    *)
(***************************************************************************)
\* C13: Effective_Points of every task record is a number >= 0, never null: the
\* achieved points when they are present and > 0, otherwise the estimated points when
\* present, otherwise 0.
C13_EffectivePoints ==
    Processed =>
        \A i \in 1..Len(Tasks) :
            /\ Tasks[i]["Effective_Points"] \in Nat
            /\ Tasks[i]["Effective_Points"] =
                   IF NotNa(Tasks[i]["Puntos Logrados"]) /\ Val(Tasks[i]["Puntos Logrados"]) > 0
                   THEN Val(Tasks[i]["Puntos Logrados"])
                   ELSE Est[i]

\* Records of all three kinds: achieved points used, estimate used beside achieved
\* points of 0, and neither present.
C13_Witness ==
    /\ Processed
    /\ \E i, j, k \in 1..Len(Tasks) :
          /\ NotNa(Tasks[i]["Estimación Original"]) /\ Ach[i] > 0
          /\ Tasks[i]["Effective_Points"] = Ach[i] /\ Ach[i] # Est[i]
          /\ Tasks[j]["Puntos Logrados"] = Some(0) /\ Tasks[j]["Effective_Points"] = 5
          /\ IsNa(Tasks[k]["Puntos Logrados"]) /\ IsNa(Tasks[k]["Estimación Original"])
          /\ Tasks[k]["Effective_Points"] = 0

\* The delivery policy of the team of the run.
TeamType == DetermineTeamType(team_name)

\* A task record in state '9. Certificado QA' with estimated points equal to 0.
QaZero(r) == r["Estado"] = E_CertificadoQA /\ r["Estimación Original"] = Some(0)

\* The rows of the loaded file that are such tasks of a completed sprint.
LoadedQaZero ==
    {k \in 1..Len(Val(raw_df).rows) :
        /\ AsStrStrip(Val(raw_df).rows[k]["Estado"]) = E_CertificadoQA
        /\ safe_float_conversion(Val(raw_df).rows[k]["Estimación Original"]) = Some(0)
        /\ is_sprint_completed(Val(raw_df).rows[k]["Sprint Completed?"])}

DeliveredTasks == {i \in 1..Len(Tasks) : Tasks[i]["Is_Delivered"]}

\* C14: under the 'En Desarrollo' policy no task record left by DataProcessor.process
\* is in state '9. Certificado QA' with estimated points 0, and every sprint, month and
\* summary figure counts task records only, so the dropped tasks enter neither the task
\* totals nor the throughput; under the 'Productivo' policy the same tasks are kept.
C14_QaZeroExcluded ==
    Processed =>
        /\ TeamType = "En Desarrollo" => \A i \in 1..Len(Tasks) : ~QaZero(Tasks[i])
        /\ TeamType = "Productivo" =>
               Cardinality({i \in 1..Len(Tasks) : QaZero(Tasks[i])}) = Cardinality(LoadedQaZero)
        /\ MetricsReady =>
               /\ \A k \in 1..Len(SprintRecords) :
                      /\ SprintRecords[k].Total_Tasks =
                             Cardinality(SprintTasks(SprintRecords[k].Sprint))
                      /\ SprintRecords[k].Throughput =
                             Cardinality(SprintDelivered(SprintRecords[k].Sprint))
               /\ \A k \in 1..Len(MonthRecords) :
                      /\ MonthRecords[k].Total_Tasks =
                             Cardinality(MonthTasks(MonthRecords[k].Month))
                      /\ MonthRecords[k].Throughput_Total =
                             Cardinality(MonthTasks(MonthRecords[k].Month) \cap DeliveredTasks)
        /\ pc = "done" => Val(summary).total_delivered = Cardinality(DeliveredTasks)

\* An 'En Desarrollo' run whose file held such a task beside others: the metrics are
\* computed without it.
C14_Witness ==
    /\ pc = "done"
    /\ TeamType = "En Desarrollo"
    /\ LoadedQaZero # {}
    /\ Len(Tasks) = Len(Val(raw_df).rows) - 1
    /\ Val(summary).total_delivered = Len(Tasks)

\* The marker rule: the cell holds text that, trimmed and lower-cased, is 'v'.
IsMarkerV(cell) ==
    NotNa(cell) /\ Val(cell).kind = "str" /\ Lower(Strip(Val(cell).text)) = T_v

\* C15: the sprint-completion flag and the carry-over flag of a task record are true
\* exactly when the marker cell, trimmed and compared case-insensitively, is 'v'; empty,
\* null, other text, numbers and booleans give false, and the carry-over flag is false
\* when the file has no 'Carry over' column.
C15_AsStated ==
    Processed =>
        \A i \in 1..Len(Tasks) :
            /\ Tasks[i]["Sprint_Completed"] = IsMarkerV(Tasks[i]["Sprint Completed?"])
            /\ Tasks[i]["Has_Carry_Over"] = IsMarkerV(Tasks[i]["Carry over"])
            /\ "Carry over" \notin file.columns => ~Tasks[i]["Has_Carry_Over"]

\* A task whose 'Sprint Completed?' cell is the boolean True is flagged as completed
\* and kept in the analysis.
C15_Divergence ==
    /\ Processed
    /\ \E i \in 1..Len(Tasks) :
          /\ Tasks[i]["Sprint Completed?"] = Some(Bool(TRUE))
          /\ ~IsMarkerV(Tasks[i]["Sprint Completed?"])
          /\ Tasks[i]["Sprint_Completed"]

(***************************************************************************)
(* Properties of load_and_validate_data.                                   *)
(***************************************************************************)
\* The call has ended, on a file that exists, can be read and has data rows.
LoadedSheet ==
    /\ pc \in {"load_return", "load_raised"}
    /\ file.exists /\ file.readable /\ Len(file.rows) > 0

\* The required columns the file lacks.
MissingColumns == SeqToSet(REQUIRED_COLUMNS) \ file.columns

\* The number of rows of the file without sprint data.
RowsMissingSprint ==
    Cardinality({i \in 1..Len(file.rows) :
                    "Sprint" \notin file.columns \/ IsNa(file.rows[i]["Sprint"])})

\* The parts of the message of the error raised.
ErrorParts == SeqToSet(Val(error_message))

\* C16: load_and_validate_data fails with a validation error and returns no table
\* whenever a required column is missing; the error lists every missing required
\* column together with the count of rows missing sprint data. A table missing only
\* optional columns does not fail.
C16_AsStated ==
    LoadedSheet =>
        /\ MissingColumns # {} =>
               /\ pc = "load_raised" /\ raw_df = None
               /\ Val(error_message)[1] = "Validación fallida:"
               /\ MissingColumns \subseteq ErrorParts
               /\ IntToStr(RowsMissingSprint)[1] \in ErrorParts
        /\ (MissingColumns = {} /\ RowsMissingSprint < Len(file.rows)) =>
               pc = "load_return" /\ NotNa(raw_df)

\* A file without 'Estado' and 'Tipo Tarea' whose second row has no sprint: the error
\* names both columns and nothing else.
C16_Divergence ==
    /\ LoadedSheet
    /\ pc = "load_raised"
    /\ MissingColumns = {"Estado", "Tipo Tarea"}
    /\ RowsMissingSprint = 1
    /\ Val(error_message) =
           <<"Validación fallida:", "Columnas faltantes: ", "Estado", "Tipo Tarea">>

(***************************************************************************)
(* Properties of the summary of a single-team run.                         *)
(***************************************************************************)
\* get_summary has returned.
Summarised == pc = "done"

\* Sprint record k comes first, in the sort order of the sprint keys, among the
\* records with its Throughput.
FirstOfItsThroughput(k) ==
    \A l \in 1..Len(SprintRecords) :
        (l # k /\ SprintRecords[l].Throughput = SprintRecords[k].Throughput)
            => StrLess(SprintRecords[k].Sprint, SprintRecords[l].Sprint)

\* C17: get_summary reports as best sprint the sprint record with the maximum
\* Throughput and as worst sprint the one with the minimum Throughput; among sprints
\* that tie, the first in sprint-key sort order is reported, for best and for worst.
C17_BestWorstSprint ==
    Summarised =>
        /\ \E k \in 1..Len(SprintRecords) :
              /\ Val(summary).best_sprint.name = SprintRecords[k].Sprint
              /\ Val(summary).best_sprint.throughput = SprintRecords[k].Throughput
              /\ \A l \in 1..Len(SprintRecords) :
                     SprintRecords[l].Throughput <= SprintRecords[k].Throughput
              /\ FirstOfItsThroughput(k)
        /\ \E k \in 1..Len(SprintRecords) :
              /\ Val(summary).worst_sprint.name = SprintRecords[k].Sprint
              /\ Val(summary).worst_sprint.throughput = SprintRecords[k].Throughput
              /\ \A l \in 1..Len(SprintRecords) :
                     SprintRecords[k].Throughput <= SprintRecords[l].Throughput
              /\ FirstOfItsThroughput(k)

\* Two sprints tie for the maximum above a third one: the best sprint is the first of
\* the two and the worst is the third.
C17_Witness ==
    /\ Summarised
    /\ \E k, l, m \in 1..Len(SprintRecords) :
          /\ StrLess(SprintRecords[k].Sprint, SprintRecords[l].Sprint)
          /\ SprintRecords[k].Throughput = SprintRecords[l].Throughput
          /\ SprintRecords[m].Throughput < SprintRecords[k].Throughput
          /\ Val(summary).best_sprint.name = SprintRecords[k].Sprint
          /\ Val(summary).worst_sprint.name = SprintRecords[m].Sprint

(***************************************************************************)
(* Properties of the MetricsCalculator getters.                            *)
(***************************************************************************)
\* calculate_all_metrics has completed on the calculator.
Completed == pc = "calc_ready"

Getters == {"get_sprint_metrics", "get_month_metrics", "get_summary"}

\* The latest call was a getter and raised the 'not calculated' ValueError.
RaisedNotCalculated == last_call.method \in Getters /\ last_call.error # None

\* Before completion both tables are absent, so each getter raises; after it both are
\* present; and a getter that was called raised exactly when it was called before
\* completion.
GettersGuarded ==
    pc \in {"calc_new", "calc_ready"} =>
        /\ ~Completed => sprint_metrics = None /\ month_metrics = None
        /\ Completed => sprint_metrics # None /\ month_metrics # None
        /\ last_call.method \in Getters => (RaisedNotCalculated <=> ~Completed)

\* C18: get_sprint_metrics, get_month_metrics and get_summary raise ValueError in every
\* state in which calculate_all_metrics has not yet completed, whatever calls came
\* before; once it has completed it stays completed and none of the three raises the
\* 'not calculated' error again, also when no sprint maps to a month (the month table
\* is then empty, not absent).
C18_GettersAfterCalculation ==
    /\ []GettersGuarded
    /\ [][Completed => (Completed' /\ ~RaisedNotCalculated')]_vars

\* No sprint of the table maps to a month: after calculate_all_metrics the month table
\* is empty and get_month_metrics has returned it without an error.
C18_Witness ==
    /\ Completed
    /\ \A i \in 1..Len(Tasks) : IsNa(Tasks[i]["Month"])
    /\ month_metrics = Some(<<>>)
    /\ last_call = [method |-> "get_month_metrics", error |-> None]

(***************************************************************************)
(* Month throughput against the sprint records.                            *)
(***************************************************************************)
\* The delivered tasks of month M.
MonthDelivered(M) == {i \in MonthTasks(M) : Tasks[i]["Is_Delivered"]}

\* The sprint records whose Month field is M.
RecordsOfMonth(M) == {k \in 1..Len(SprintRecords) : SprintRecords[k].Month = Some(M)}

\* Every unified sprint with a task in M has all its tasks in M.
SprintsWhollyIn(M) == \A u \in MonthSprints(M) : SprintTasks(u) \subseteq MonthTasks(M)

\* C19 as stated: for every month M, Throughput_Total is the sum of the Throughput
\* fields of the sprint records whose Month field is M, and Throughput_Avg is
\* Throughput_Total divided by the number of distinct unified sprints of M.
C19_AsStated ==
    MetricsReady =>
        \A m \in 1..Len(MonthRecords) :
            LET M == MonthRecords[m].Month
            IN  /\ MonthRecords[m].Throughput_Total
                      = SumOver(RecordsOfMonth(M),
                                [k \in RecordsOfMonth(M) |-> SprintRecords[k].Throughput])
                /\ MonthRecords[m].Throughput_Avg
                      = Some(Frac(MonthRecords[m].Throughput_Total,
                                  Cardinality(MonthSprints(M))))

\* What the month record holds instead: Throughput_Total is the number of delivered
\* tasks whose Month is M, Throughput_Avg is that number divided by the number of
\* distinct unified sprints of M, and the sprint records of month M add up to
\* Throughput_Total when every unified sprint of M has all its tasks in M.
MonthThroughputCountsDelivered ==
    MetricsReady =>
        \A m \in 1..Len(MonthRecords) :
            LET M == MonthRecords[m].Month
                sprints == MonthSprints(M)
            IN  /\ MonthRecords[m].Throughput_Total = Cardinality(MonthDelivered(M))
                /\ MonthRecords[m].Num_Sprints = Cardinality(sprints)
                /\ MonthRecords[m].Throughput_Avg
                      = Some(Frac(MonthRecords[m].Throughput_Total, Cardinality(sprints)))
                /\ SprintsWhollyIn(M) =>
                      MonthRecords[m].Throughput_Total
                          = SumOver(RecordsOfMonth(M),
                                    [k \in RecordsOfMonth(M) |-> SprintRecords[k].Throughput])

\* C19 divergence: the labels 'sprint 9' and 'Sprint 9' are unified to 'Sprint 9'; only
\* the second contains a mapping key, so the sprint record takes the null Month of its
\* first task while the delivered task is counted in Noviembre: the month record has
\* Throughput_Total 1 and no sprint record carries that month.
C19_Divergence ==
    /\ MetricsReady
    /\ \E m \in 1..Len(MonthRecords), k \in 1..Len(SprintRecords) :
          LET M == MonthRecords[m].Month
          IN  /\ SprintRecords[k].Sprint \in MonthSprints(M)
              /\ SprintRecords[k].Month = None
              /\ SprintRecords[k].Throughput = 1
              /\ Cardinality({Tasks[i]["Sprint"] : i \in SprintTasks(SprintRecords[k].Sprint)}) = 2
              /\ MonthRecords[m].Throughput_Total = 1
              /\ MonthRecords[m].Throughput_Avg = Some(Frac(1, 1))
              /\ RecordsOfMonth(M) = {}

(***************************************************************************)
(* Month rework against the rework of the month's sprints.                 *)
(***************************************************************************)
\* Estimated points of the delivered tasks in S, and of the bugs among them.
DeliveredPoints(S) == SumOver({i \in S : Tasks[i]["Is_Delivered"]}, Est)

DeliveredBugPoints(S) ==
    SumOver({i \in S : Tasks[i]["Is_Delivered"] /\ Tasks[i]["Is_Bug"]}, Est)

\* The sprint rework formula applied to the tasks of a unified sprint that lie in M.
ReworkIn(M, sprint) ==
    LET S == SprintTasks(sprint) \cap MonthTasks(M)
    IN  PercentOrNaN(DeliveredBugPoints(S), DeliveredPoints(S))

\* The rework values of the unified sprints of M, in any order, nulls left out.
RECURSIVE ReworkValues(_, _)
ReworkValues(M, sprints) ==
    IF sprints = {} THEN <<>>
    ELSE LET u == CHOOSE x \in sprints : TRUE
             rest == ReworkValues(M, sprints \ {u})
         IN  IF NotNa(ReworkIn(M, u)) THEN <<Val(ReworkIn(M, u))>> \o rest ELSE rest

\* C20 as stated: the Rework of every month is the mean of the rework values of the
\* month's unified sprints, sprints with a null rework left out, and not one ratio
\* over the pooled delivered tasks of the month.
C20_AsStated ==
    MetricsReady =>
        \A m \in 1..Len(MonthRecords) :
            MonthRecords[m].Rework
                = FracMeanOrNaN(ReworkValues(MonthRecords[m].Month,
                                             MonthSprints(MonthRecords[m].Month)))

\* What the month record holds instead: one ratio over the delivered tasks whose Month
\* is M, 100 times the estimated points of the delivered bugs divided by the estimated
\* points of all delivered tasks, null when that divisor is 0. It equals the rework of
\* a sprint record when M has that single sprint and the sprint lies wholly in M.
MonthReworkPooled ==
    MetricsReady =>
        \A m \in 1..Len(MonthRecords) :
            LET M == MonthRecords[m].Month
            IN  /\ MonthRecords[m].Rework
                      = PercentOrNaN(DeliveredBugPoints(MonthTasks(M)),
                                     DeliveredPoints(MonthTasks(M)))
                /\ \A k \in 1..Len(SprintRecords) :
                      (/\ MonthSprints(M) = {SprintRecords[k].Sprint}
                       /\ SprintsWhollyIn(M))
                          => MonthRecords[m].Rework = SprintRecords[k].Rework

\* C20 divergence: a month of two unified sprints that lie wholly in it, one delivered
\* without bugs (rework 0) and one with a fifth of its delivered points in bugs
\* (rework 20): the month's Rework is the pooled ratio and differs from the mean 10.
C20_Divergence ==
    /\ MetricsReady
    /\ \E m \in 1..Len(MonthRecords) :
          LET M == MonthRecords[m].Month
          IN  /\ SprintsWhollyIn(M)
              /\ \E u, v \in MonthSprints(M) :
                    /\ MonthSprints(M) = {u, v}
                    /\ ReworkIn(M, u) = Some(Frac(0, 1))
                    /\ ReworkIn(M, v) = Some(Frac(20, 1))
              /\ NotNa(MonthRecords[m].Rework)
              /\ MonthRecords[m].Rework # Some(Frac(10, 1))
              /\ MonthRecords[m].Rework
                    = PercentOrNaN(DeliveredBugPoints(MonthTasks(M)),
                                   DeliveredPoints(MonthTasks(M)))

(***************************************************************************)
(* Month cycle time: a mean of sprint means and a pooled median.           *)
(***************************************************************************)
\* The cycle time of task i, 0 standing for a null that is never summed.
Ct == [i \in 1..Len(Tasks) |->
          IF NotNa(Tasks[i]["Cycle_Time_Days"]) THEN Val(Tasks[i]["Cycle_Time_Days"]) ELSE 0]

\* The delivered tasks of month M with a cycle time, of one unified sprint and of all.
TimedIn(M, sprint) ==
    {i \in SprintDelivered(sprint) \cap MonthTasks(M) : NotNa(Tasks[i]["Cycle_Time_Days"])}

Timed(M) == {i \in MonthDelivered(M) : NotNa(Tasks[i]["Cycle_Time_Days"])}

\* The unified sprints of M that have a cycle time to contribute, and their means.
Contributing(M) == {u \in MonthSprints(M) : TimedIn(M, u) # {}}

SprintMeanCt(M, sprint) == Frac(SumOver(TimedIn(M, sprint), Ct), Cardinality(TimedIn(M, sprint)))

\* Sum over the set S of the fractions f[x].
RECURSIVE SumFracOver(_, _)
SumFracOver(S, f) ==
    IF S = {} THEN FracOfInt(0)
    ELSE LET x == CHOOSE y \in S : TRUE IN FracAdd(f[x], SumFracOver(S \ {x}, f))

\* The k-th smallest cycle time among the tasks S.
KthCt(S, k) ==
    CHOOSE v \in {Ct[i] : i \in S} :
        /\ Cardinality({j \in S : Ct[j] < v}) < k
        /\ k <= Cardinality({j \in S : Ct[j] <= v})

MedianCt(S) ==
    LET n == Cardinality(S)
    IN  IF n % 2 = 1 THEN FracOfInt(KthCt(S, (n + 1) \div 2))
        ELSE Frac(KthCt(S, n \div 2) + KthCt(S, (n \div 2) + 1), 2)

\* C21: for every month, Cycle_Time_Avg is the mean of the mean cycle times of the
\* month's unified sprints, a sprint without a delivered task that has a cycle time
\* contributing nothing, and is null when no sprint contributes; Cycle_Time_Median is
\* the median of the cycle times of all delivered tasks of the month taken together.
C21_MonthCycleTime ==
    MetricsReady =>
        \A m \in 1..Len(MonthRecords) :
            LET M == MonthRecords[m].Month
                C == Contributing(M)
            IN  /\ MonthRecords[m].Cycle_Time_Avg
                      = IF C = {} THEN None
                        ELSE Some(FracDiv(SumFracOver(C, [u \in C |-> SprintMeanCt(M, u)]),
                                          Cardinality(C)))
                /\ MonthRecords[m].Cycle_Time_Median
                      = IF Timed(M) = {} THEN None ELSE Some(MedianCt(Timed(M)))

\* C21 witness: a month where one unified sprint has two deliveries with a cycle time
\* and another has one, and the mean of the sprint means differs from the mean over
\* the pooled tasks and from the pooled median.
C21_Witness ==
    /\ MetricsReady
    /\ \E m \in 1..Len(MonthRecords) :
          LET M == MonthRecords[m].Month
          IN  /\ \E u, v \in Contributing(M) :
                    /\ Cardinality(TimedIn(M, u)) = 2
                    /\ Cardinality(TimedIn(M, v)) = 1
              /\ NotNa(MonthRecords[m].Cycle_Time_Avg)
              /\ MonthRecords[m].Cycle_Time_Avg
                    # Some(Frac(SumOver(Timed(M), Ct), Cardinality(Timed(M))))
              /\ MonthRecords[m].Cycle_Time_Avg # MonthRecords[m].Cycle_Time_Median

\* A month where a sprint with a delivery but no cycle time stands beside one that
\* contributes: the average is the mean of the contributing sprint alone.
SprintWithoutCycleTimeExcluded ==
    /\ MetricsReady
    /\ \E m \in 1..Len(MonthRecords) :
          LET M == MonthRecords[m].Month
          IN  /\ Contributing(M) # {}
              /\ Contributing(M) # MonthSprints(M)
              /\ \E u \in MonthSprints(M) \ Contributing(M) : SprintDelivered(u) # {}
              /\ MonthRecords[m].Cycle_Time_Avg
                    = Some(SprintMeanCt(M, CHOOSE u \in Contributing(M) : TRUE))

(***************************************************************************)
(* Month predictability: sprints without commitment are left out.          *)
(***************************************************************************)
\* Committed and delivered estimated points of a unified sprint within month M.
CommittedIn(M, sprint) == SumOver(SprintTasks(sprint) \cap MonthTasks(M), Est)

DeliveredIn(M, sprint) == SumOver(SprintDelivered(sprint) \cap MonthTasks(M), Est)

\* The unified sprints of M with a commitment.
CommittedSprints(M) == {u \in MonthSprints(M) : CommittedIn(M, u) > 0}

\* C22: for every month, Predictability is the arithmetic mean of the predictability
\* of the month's unified sprints whose committed points are above 0; a sprint with no
\* commitment enters neither the sum nor the count, and the value is null when every
\* sprint of the month has no commitment.
C22_MonthPredictability ==
    MetricsReady =>
        \A m \in 1..Len(MonthRecords) :
            LET M == MonthRecords[m].Month
                C == CommittedSprints(M)
            IN  MonthRecords[m].Predictability
                    = IF C = {} THEN None
                      ELSE Some(FracDiv(SumFracOver(C, [u \in C |->
                                            Frac(100 * DeliveredIn(M, u), CommittedIn(M, u))]),
                                        Cardinality(C)))

\* C22 witness: a month of two unified sprints, one without commitment and one that
\* delivered part of its commitment; the month value is that sprint's predictability,
\* not half of it.
C22_Witness ==
    /\ MetricsReady
    /\ \E m \in 1..Len(MonthRecords) :
          LET M == MonthRecords[m].Month
          IN  \E u, v \in MonthSprints(M) :
                 /\ MonthSprints(M) = {u, v}
                 /\ CommittedIn(M, u) = 0
                 /\ CommittedIn(M, v) > 0
                 /\ DeliveredIn(M, v) > 0
                 /\ MonthRecords[m].Predictability
                       = Some(Frac(100 * DeliveredIn(M, v), CommittedIn(M, v)))
                 /\ MonthRecords[m].Predictability
                       # Some(Frac(100 * DeliveredIn(M, v), 2 * CommittedIn(M, v)))

\* A month whose sprints all lack commitment has a null Predictability.
MonthWithoutCommitment ==
    /\ MetricsReady
    /\ \E m \in 1..Len(MonthRecords) :
          /\ CommittedSprints(MonthRecords[m].Month) = {}
          /\ MonthRecords[m].Predictability = None

\* A month of two committed sprints with different predictability.
MonthOfTwoCommittedSprints ==
    /\ MetricsReady
    /\ \E m \in 1..Len(MonthRecords) :
          LET M == MonthRecords[m].Month
          IN  \E u, v \in CommittedSprints(M) :
                 /\ Frac(100 * DeliveredIn(M, u), CommittedIn(M, u))
                       # Frac(100 * DeliveredIn(M, v), CommittedIn(M, v))
                 /\ DeliveredIn(M, u) > 0
                 /\ DeliveredIn(M, v) > 0

(***************************************************************************)
(* Sprint rework on velocity.                                              *)
(***************************************************************************)
\* C23: for every unified sprint, Rework_Achieved is 100 * (estimated points of the
\* delivered bug tasks) / Velocity of the sprint, and is null when Velocity is 0,
\* whether or not the sprint has delivered bug tasks.
C23_ReworkAchieved ==
    MetricsReady =>
        \A k \in 1..Len(SprintRecords) :
            LET B == SprintDeliveredBugs(SprintRecords[k].Sprint)
            IN  SprintRecords[k].Rework_Achieved
                    = IF SprintRecords[k].Velocity = 0 THEN None
                      ELSE Some(Frac(100 * SumOver(B, Est), SprintRecords[k].Velocity))

\* C23 witness: a sprint whose only delivery is a bug of 0 points, so that Velocity is
\* 0 and Rework_Achieved null, beside a sprint whose delivered bug points are a proper
\* part of a Velocity that exceeds the delivered points.
C23_Witness ==
    /\ MetricsReady
    /\ \E k \in 1..Len(SprintRecords) :
          /\ SprintDeliveredBugs(SprintRecords[k].Sprint) # {}
          /\ SprintRecords[k].Velocity = 0
          /\ SprintRecords[k].Rework_Achieved = None
    /\ \E k \in 1..Len(SprintRecords) :
          /\ SprintRecords[k].Velocity > 0
          /\ NotNa(SprintRecords[k].Rework_Achieved)
          /\ SprintRecords[k].Rework_Achieved # Some(Frac(0, 1))

\* A sprint whose Velocity exceeds its delivered points, with delivered bug points.
ReworkAchievedBelowRework ==
    /\ MetricsReady
    /\ \E k \in 1..Len(SprintRecords) :
          /\ NotNa(SprintRecords[k].Rework_Achieved)
          /\ NotNa(SprintRecords[k].Rework)
          /\ SprintRecords[k].Rework_Achieved # SprintRecords[k].Rework
          /\ SprintRecords[k].Rework_Achieved # Some(Frac(0, 1))

(***************************************************************************)
(* The month of a raw sprint label.                                        *)
(***************************************************************************)
\* The text key occurs in the text label as a run of consecutive characters.
OccursIn(key, label) ==
    \E a \in 1..(Len(label) + 1) :
        /\ a + Len(key) - 1 <= Len(label)
        /\ \A k \in 1..Len(key) : label[a + k - 1] = key[k]

\* The positions of the mapping table whose key occurs in the raw sprint label.
KeysInLabel == {i \in 1..Len(sprint_mapping) : OccursIn(sprint_mapping[i][1], sprint_name)}

\* C24: the month of a record is the month of the first key of the mapping table, in
\* table order, that occurs as a substring of the raw sprint label, and is null when
\* no key occurs in the label.
C24_MonthOfFirstKey ==
    Mapped =>
        /\ KeysInLabel = {} => month = None
        /\ \A i \in KeysInLabel :
              (\A j \in 1..(i - 1) : j \notin KeysInLabel) => month = Some(sprint_mapping[i][2])

\* C24 witness: the label 'Sprint 7 Sprint 9' under the table that lists 'Sprint 9'
\* before 'Sprint 7': both keys occur, the key that comes first in the table gives the
\* month although the other comes first in the label and is the unified sprint.
C24_Witness ==
    /\ Mapped
    /\ sprint_mapping = LateFirstMapping
    /\ sprint_name = K_Sprint7 \o <<" ">> \o K_Sprint9
    /\ KeysInLabel = {1, 2}
    /\ sprint_unified = Some(K_Sprint7)
    /\ month = Some(M_Noviembre)

\* A label in which no key of the table occurs has no month.
LabelWithoutKey ==
    /\ Mapped
    /\ sprint_mapping = DEFAULT_SPRINT_MAPPING
    /\ KeysInLabel = {}
    /\ sprint_unified = Some(K_Sprint7)
    /\ month = None

(***************************************************************************)
(* Task records whose sprint maps to no month.                             *)
(***************************************************************************)
\* Task i has no month.
Unmapped(i) == Tasks[i]["Month"] = None

\* No key of the default mapping occurs in the raw sprint label of task i.
NoKeyInLabel(i) ==
    \A k \in 1..Len(DEFAULT_SPRINT_MAPPING) :
        ~OccursIn(DEFAULT_SPRINT_MAPPING[k][1], Tasks[i]["Sprint"])

\* C25: a task record whose sprint maps to no month stays in the processed table with
\* a null month; it is counted in the sprint record of its unified sprint (task total,
\* throughput, velocity, predictability) and in no month record: the month records
\* count exactly the tasks that have their month.
C25_UnmappedTasks ==
    /\ Processed => \A i \in 1..Len(Tasks) : Unmapped(i) <=> NoKeyInLabel(i)
    /\ MetricsReady =>
          /\ \A i \in 1..Len(Tasks) :
                Unmapped(i) =>
                    \E k \in 1..Len(SprintRecords) :
                        LET S == SprintTasks(SprintRecords[k].Sprint)
                            D == SprintDelivered(SprintRecords[k].Sprint)
                        IN  /\ i \in S
                            /\ SprintRecords[k].Total_Tasks = Cardinality(S)
                            /\ SprintRecords[k].Throughput = Cardinality(D)
                            /\ SprintRecords[k].Velocity = SumOver(D, Est) + SumOver(S \ D, Ach)
                            /\ SprintRecords[k].Predictability
                                  = IF SumOver(S, Est) = 0 THEN None
                                    ELSE Some(Frac(100 * SumOver(D, Est), SumOver(S, Est)))
          /\ \A m \in 1..Len(MonthRecords) :
                /\ MonthRecords[m].Total_Tasks = Cardinality(MonthTasks(MonthRecords[m].Month))
                /\ MonthRecords[m].Delivered_Tasks
                      = Cardinality(MonthDelivered(MonthRecords[m].Month))
                /\ \A n \in 1..Len(MonthRecords) :
                      MonthRecords[n].Month = MonthRecords[m].Month => n = m
          /\ SumOver(1..Len(MonthRecords), [m \in 1..Len(MonthRecords) |->
                                               MonthRecords[m].Total_Tasks])
                = Cardinality({i \in 1..Len(Tasks) : ~Unmapped(i)})

\* C25 witness: a unified sprint with a delivered task of positive estimate that has
\* no month beside a task that has one; the sprint record counts both, the month
\* record only the second.
C25_Witness ==
    /\ MetricsReady
    /\ \E i, j \in 1..Len(Tasks) :
          /\ Unmapped(i) /\ Tasks[i]["Is_Delivered"] /\ Est[i] > 0
          /\ ~Unmapped(j)
          /\ Tasks[i]["Sprint_Unified"] = Tasks[j]["Sprint_Unified"]
          /\ \E k \in 1..Len(SprintRecords) :
                /\ SprintRecords[k].Sprint = Tasks[i]["Sprint_Unified"]
                /\ SprintRecords[k].Total_Tasks = 2
                /\ SprintRecords[k].Throughput = 1
                /\ SprintRecords[k].Velocity = Est[i]
          /\ \E m \in 1..Len(MonthRecords) :
                /\ MonthRecords[m].Month = Val(Tasks[j]["Month"])
                /\ MonthRecords[m].Total_Tasks = 1
                /\ MonthRecords[m].Throughput_Total = 0

\* A run all of whose tasks lack a month: sprint records and no month record.
AllTasksUnmapped ==
    /\ MetricsReady
    /\ \A i \in 1..Len(Tasks) : Unmapped(i)
    /\ Len(SprintRecords) > 0
    /\ MonthRecords = <<>>

(***************************************************************************)
(* Null ratios and the figures that average them.                          *)
(***************************************************************************)
HasSummary == pc \in {"done", "reported"}

Reported == pc = "reported"

\* The mean of the non-null values of the per-sprint values f, null when all are null.
MeanOfNonNull(f) ==
    LET K == {k \in DOMAIN f : NotNa(f[k])}
    IN  IF K = {} THEN None
        ELSE Some(FracDiv(SumFracOver(K, [k \in K |-> Val(f[k])]), Cardinality(K)))

\* A sprint ratio whose denominator is zero or undefined is null.
NullRatios ==
    \A k \in 1..Len(SprintRecords) :
        LET S == SprintTasks(SprintRecords[k].Sprint)
            D == SprintDelivered(SprintRecords[k].Sprint)
        IN  /\ SumOver(S, Est) = 0 => SprintRecords[k].Predictability = None
            /\ SumOver(D, Est) = 0 => SprintRecords[k].Rework = None
            /\ SprintRecords[k].Velocity = 0 =>
                  /\ SprintRecords[k].Rework_Achieved = None
                  /\ SprintRecords[k].Rework_Velocity = None
            /\ {i \in D : NotNa(Tasks[i]["Cycle_Time_Days"])} = {} =>
                  SprintRecords[k].Cycle_Time_Avg = None

\* The summary's averages leave the null sprints out and are null when all are null.
SummaryAverages ==
    /\ Val(summary).avg_predictability
          = MeanOfNonNull([k \in 1..Len(SprintRecords) |-> SprintRecords[k].Predictability])
    /\ Val(summary).avg_rework
          = MeanOfNonNull([k \in 1..Len(SprintRecords) |-> SprintRecords[k].Rework])
    /\ Val(summary).avg_cycle_time
          = MeanOfNonNull([k \in 1..Len(SprintRecords) |-> SprintRecords[k].Cycle_Time_Avg])

\* C26 as stated: a ratio with a zero or undefined denominator is null, never 0, and
\* every figure that averages it over sprints (the summary's average predictability,
\* rework and cycle time, and the batch report's average HDU predictability) leaves
\* the null sprints out and is itself null, not 0, when every sprint value is null.
C26_AsStated ==
    /\ (MetricsReady \/ Reported) => NullRatios
    /\ HasSummary => SummaryAverages
    /\ Reported =>
          Val(summary_row).pred_hdu
              = MeanOfNonNull([k \in 1..Len(SprintRecords) |->
                                  SprintRecords[k].Predictability_HDU])

\* What holds: the sprint ratios and the three averages of the summary follow the
\* rule, and the report's HDU figure is the mean of the non-null sprint values
\* whenever one exists.
NullRatiosAndSummaryAverages ==
    /\ (MetricsReady \/ Reported) => NullRatios
    /\ HasSummary => SummaryAverages
    /\ Reported =>
          /\ Val(summary_row).pred = Val(summary).avg_predictability
          /\ (\E k \in 1..Len(SprintRecords) : NotNa(SprintRecords[k].Predictability_HDU))
                => Val(summary_row).pred_hdu
                      = MeanOfNonNull([k \in 1..Len(SprintRecords) |->
                                          SprintRecords[k].Predictability_HDU])

\* C26 divergence: every sprint of the team has a null Predictability_HDU; the
\* summary's average predictability is null, and the report's HDU figure is 0.
C26_Divergence ==
    /\ Reported
    /\ Len(SprintRecords) > 0
    /\ \A k \in 1..Len(SprintRecords) :
          /\ SprintRecords[k].Predictability_HDU = None
          /\ SprintRecords[k].Predictability = None
    /\ Val(summary).avg_predictability = None
    /\ Val(summary_row).pred = None
    /\ Val(summary_row).pred_hdu = Some(FracOfInt(0))

\* A summary that averages over two sprints, one of them with null ratios.
SummaryLeavesNullSprintOut ==
    /\ HasSummary
    /\ \E j, k \in 1..Len(SprintRecords) :
          /\ SprintRecords[j].Predictability = None
          /\ NotNa(SprintRecords[k].Predictability)
          /\ Val(summary).avg_predictability = SprintRecords[k].Predictability
          /\ Val(summary).avg_predictability # Some(FracOfInt(0))

(***************************************************************************)
(* Totals of the summary against the sprint records and the data set.      *)
(***************************************************************************)
\* The task types of the data set and the delivered tasks of one type.
TaskTypes == {Tasks[i]["Tipo Tarea"] : i \in 1..Len(Tasks)}

DeliveredOfType(S, t) == {i \in S : Tasks[i]["Is_Delivered"] /\ Tasks[i]["Tipo Tarea"] = t}

\* The delivered count that sprint record k holds for type t.
SprintTypeCount(k, t) ==
    LET e == CHOOSE j \in 1..Len(SprintRecords[k].Type_Delivered) :
                 SprintRecords[k].Type_Delivered[j][1] = t
    IN  SprintRecords[k].Type_Delivered[e][2]

\* C27: in the summary, total_delivered is the sum of Throughput over all sprint
\* records and the number of delivered tasks of the data set; the delivered total of
\* every task type, counted on the data set, is the sum over all sprint records of
\* the sprint's delivered count of that type.
C27_SummaryTotals ==
    HasSummary =>
        /\ Val(summary).total_delivered
              = SumOver(1..Len(SprintRecords),
                        [k \in 1..Len(SprintRecords) |-> SprintRecords[k].Throughput])
        /\ Val(summary).total_delivered = Cardinality(DeliveredTasks)
        /\ {Val(summary).type_delivered[j][1] : j \in 1..Len(Val(summary).type_delivered)}
              = {Lower(t) : t \in TaskTypes}
        /\ \A t \in TaskTypes :
              \A j \in 1..Len(Val(summary).type_delivered) :
                  Val(summary).type_delivered[j][1] = Lower(t) =>
                      /\ Val(summary).type_delivered[j][2]
                            = Cardinality(DeliveredOfType(1..Len(Tasks), t))
                      /\ Val(summary).type_delivered[j][2]
                            = SumOver(1..Len(SprintRecords),
                                      [k \in 1..Len(SprintRecords) |-> SprintTypeCount(k, t)])
                      /\ \A k \in 1..Len(SprintRecords) :
                            SprintTypeCount(k, t)
                                = Cardinality(DeliveredOfType(
                                                  SprintTasks(SprintRecords[k].Sprint), t))

\* C27 witness: several sprints and task types; one type is delivered in two sprints
\* and has an undelivered task, so that its total is below the number of its tasks,
\* and some sprint holds the count 0 for a type.
C27_Witness ==
    /\ HasSummary
    /\ Len(SprintRecords) >= 2
    /\ Cardinality(TaskTypes) >= 2
    /\ Val(summary).total_delivered < Len(Tasks)
    /\ \E t \in TaskTypes :
          /\ \E j, k \in 1..Len(SprintRecords) :
                j # k /\ SprintTypeCount(j, t) > 0 /\ SprintTypeCount(k, t) > 0
          /\ \E i \in 1..Len(Tasks) : Tasks[i]["Tipo Tarea"] = t /\ ~Tasks[i]["Is_Delivered"]
    /\ \E t \in TaskTypes, k \in 1..Len(SprintRecords) : SprintTypeCount(k, t) = 0

(***************************************************************************)
(* Bounds within a sprint record.                                          *)
(***************************************************************************)
\* The estimated points of every task are null or not negative.
EstimatesNotNegative ==
    \A i \in 1..Len(Tasks) :
        NotNa(Tasks[i]["Estimación Original"]) => Val(Tasks[i]["Estimación Original"]) >= 0

\* C28: in every sprint record computed from tasks whose estimated points are null or
\* not negative, Delivered_Tasks = Throughput <= Total_Tasks, Delivered_Points <=
\* Committed_Points, and Predictability, when not null, is between 0 and 100.
C28_RecordBounds ==
    (MetricsReady /\ EstimatesNotNegative) =>
        \A k \in 1..Len(SprintRecords) :
            /\ SprintRecords[k].Delivered_Tasks = SprintRecords[k].Throughput
            /\ SprintRecords[k].Throughput <= SprintRecords[k].Total_Tasks
            /\ SprintRecords[k].Throughput >= 0
            /\ SprintRecords[k].Delivered_Points <= SprintRecords[k].Committed_Points
            /\ NotNa(SprintRecords[k].Predictability) =>
                  /\ Val(SprintRecords[k].Predictability).d > 0
                  /\ Val(SprintRecords[k].Predictability).n >= 0
                  /\ Val(SprintRecords[k].Predictability).n
                        <= 100 * Val(SprintRecords[k].Predictability).d

\* C28 witness: a record strictly inside every bound beside a record on the bounds,
\* where all tasks are delivered and Predictability is 100.
C28_Witness ==
    /\ MetricsReady /\ EstimatesNotNegative
    /\ \E k \in 1..Len(SprintRecords) :
          /\ 0 < SprintRecords[k].Throughput
          /\ SprintRecords[k].Throughput < SprintRecords[k].Total_Tasks
          /\ 0 < SprintRecords[k].Delivered_Points
          /\ SprintRecords[k].Delivered_Points < SprintRecords[k].Committed_Points
          /\ NotNa(SprintRecords[k].Predictability)
          /\ Val(SprintRecords[k].Predictability).n
                < 100 * Val(SprintRecords[k].Predictability).d
    /\ \E k \in 1..Len(SprintRecords) :
          /\ SprintRecords[k].Throughput = SprintRecords[k].Total_Tasks
          /\ SprintRecords[k].Predictability = Some(FracOfInt(100))

(***************************************************************************)
(* Only tasks of completed sprints are aggregated.                         *)
(***************************************************************************)
\* The exit status of main() once the run has ended in an error: 1 when loading raised
\* or the processed table is empty.
MainStatus == IF pc = "failed" THEN Some(1) ELSE None

\* The rows of the loaded table whose sprint is marked as completed and whose sprint
\* label is not null.
CompletedRows ==
    {k \in 1..Len(Val(raw_df).rows) :
        /\ "Sprint Completed?" \in Val(raw_df).columns
        /\ is_sprint_completed(Val(raw_df).rows[k]["Sprint Completed?"])
        /\ NotNa(Val(raw_df).rows[k]["Sprint"])}

\* C29: every task that reaches metric aggregation has a true sprint-completion flag
\* and a non-null sprint label: process drops every row whose 'Sprint Completed?' marker
\* does not map to true, and when the input table has no 'Sprint Completed?' column the
\* processed table is empty, no sprint or month record is produced and the run fails
\* (exit status 1 of the single-team run).
C29_CompletedSprintsOnly ==
    processed_df # None =>
        /\ \A i \in 1..Len(Tasks) :
              /\ Tasks[i]["Sprint_Completed"]
              /\ "Sprint Completed?" \in Val(processed_df).columns
              /\ is_sprint_completed(Tasks[i]["Sprint Completed?"])
              /\ Tasks[i]["Sprint"] # T_nan
              /\ \E k \in CompletedRows :
                    AsStrStrip(Val(raw_df).rows[k]["Sprint"]) = Tasks[i]["Sprint"]
        /\ Len(Tasks) <= Cardinality(CompletedRows)
        /\ TeamType = "Productivo" => Len(Tasks) = Cardinality(CompletedRows)
        /\ "Sprint Completed?" \notin Val(raw_df).columns =>
              /\ Len(Tasks) = 0
              /\ pc = "failed"
              /\ MainStatus = Some(1)
              /\ error_message = Some(<<"No hay datos válidos después del procesamiento">>)
              /\ sprint_metrics = None /\ month_metrics = None /\ summary = None
        /\ Len(Tasks) = 0 <=> pc = "failed"

\* C29 witness: a table with the marker column whose rows are partly dropped, for a null
\* marker, another text, the boolean False or a null sprint label, and whose remaining
\* task is aggregated into one sprint record.
C29_Witness ==
    /\ MetricsReady
    /\ Len(Val(raw_df).rows) = 3
    /\ Len(Tasks) = 1
    /\ Len(SprintRecords) = 1
    /\ \E k \in 1..3 :
          \/ IsNa(Val(raw_df).rows[k]["Sprint Completed?"])
          \/ Val(raw_df).rows[k]["Sprint Completed?"] = Some(Str(X_x))
          \/ Val(raw_df).rows[k]["Sprint Completed?"] = Some(Bool(FALSE))
    /\ \E k \in 1..3 : k \notin CompletedRows

\* A loaded table of three tasks without the 'Sprint Completed?' column: processing leaves
\* no task and the run fails.
UnmarkedExportFails ==
    /\ processed_df # None
    /\ "Sprint Completed?" \notin Val(raw_df).columns
    /\ Len(Val(raw_df).rows) = 3
    /\ Len(Tasks) = 0
    /\ pc = "failed"
    /\ MainStatus = Some(1)

\* A task with a completed sprint and a null sprint label is dropped beside one kept.
NullSprintLabelDropped ==
    /\ MetricsReady
    /\ Len(Tasks) < Len(Val(raw_df).rows)
    /\ \E k \in 1..Len(Val(raw_df).rows) :
          /\ IsNa(Val(raw_df).rows[k]["Sprint"])
          /\ is_sprint_completed(Val(raw_df).rows[k]["Sprint Completed?"])

(***************************************************************************)
(* The two functions that choose the delivery policy of a team.            *)
(***************************************************************************)
ConfiguredDevelopmentTeam(name) ==
    \E i \in 1..Len(DEVELOPMENT_TEAMS) : Upper(Strip(name)) = Upper(DEVELOPMENT_TEAMS[i])

\* The team name is a part of a configured development team's name without being it.
PartOfDevelopmentTeam(name) ==
    /\ ~ConfiguredDevelopmentTeam(name)
    /\ \E i \in 1..Len(DEVELOPMENT_TEAMS) :
          Contains(Upper(Strip(name)), Upper(DEVELOPMENT_TEAMS[i]))

\* C30 as stated: for every team name, BatchProcessor._determine_team_type and the
\* module-level determine_team_type return the same variant, 'En Desarrollo' exactly
\* for the configured development teams (FIDREN, FIDSIN_2_0, P2W) and 'Productivo' for
\* every other team.
C30_AsStated ==
    \A k \in 1..Len(results) :
        /\ results[k].team_type = determine_team_type(results[k].team_name)
        /\ results[k].team_type = "En Desarrollo" <=>
              ConfiguredDevelopmentTeam(results[k].team_name)

\* The two functions agree, and choose 'En Desarrollo' exactly for the configured
\* teams, on every team whose name is not a part of a configured team's name.
TeamTypeAgreesOffParts ==
    \A k \in 1..Len(results) :
        ~PartOfDevelopmentTeam(results[k].team_name) =>
            /\ results[k].team_type = determine_team_type(results[k].team_name)
            /\ results[k].team_type = "En Desarrollo" <=>
                  ConfiguredDevelopmentTeam(results[k].team_name)

\* The result of team 'FIDSIN' carries 'En Desarrollo', chosen by _determine_team_type
\* because 'FIDSIN' is contained in 'FIDSIN_2_0', while determine_team_type returns
\* 'Productivo' for the same name, which is not a configured development team.
C30_Divergence ==
    \E k \in 1..Len(results) :
        /\ results[k].team_name = TEAM_FIDSIN
        /\ results[k].team_type = "En Desarrollo"
        /\ determine_team_type(results[k].team_name) = "Productivo"
        /\ ~ConfiguredDevelopmentTeam(results[k].team_name)
        /\ results[k].success

\* A batch whose results hold a configured development team and a productive team, on
\* which the two functions agree.
TeamTypesAgreeInBatch ==
    /\ \E k \in 1..Len(results) :
          /\ results[k].team_name = TEAM_FIDSIN_2_0
          /\ results[k].team_type = "En Desarrollo"
          /\ determine_team_type(results[k].team_name) = "En Desarrollo"
    /\ \E k \in 1..Len(results) :
          /\ results[k].team_name = TEAM_Auto3P
          /\ results[k].team_type = "Productivo"
          /\ determine_team_type(results[k].team_name) = "Productivo"

====
